---------------------------- MODULE Spec2Model ----------------------------
(***************************************************************************)
(* A model of the human swing/twist retargeting core of mesh2motion-app:   *)
(* Rig construction from a chain configuration, the Retargeter's update    *)
(* pipeline and bake routine, the derivation of custom chain               *)
(* configurations from a bone correspondence table, and the retargeting    *)
(* service's handling of animation clips and their tracks.                 *)
(*                                                                         *)
(* Conventions of the model                                                *)
(*  - the mixer's time is counted in ticks, TicksPerSec ticks to the       *)
(*    second, so that the service's update(0.001) and the frame time 1/30  *)
(*    are whole numbers;                                                   *)
(*  - the key times a bake records are doubles (a 53-bit significand and   *)
(*    an exponent), computed with the rounding of each operation;          *)
(*  - direction vectors (swing, twist) are integer triples in thousandths  *)
(*    (+Z is <<0, 0, 1000>>), positions are integer triples;               *)
(*  - a rotation is the 3x3 matrix it acts by, kept as the triple of the   *)
(*    images of the three axes; the rotations that occur are the 24        *)
(*    rotations of the cube, on which every operation below is exact;      *)
(*  - a JavaScript NaN result is the one-element tuple <<"NaN">>;          *)
(*  - a JavaScript TypeError is the flag "threw" of a call's result;       *)
(*  - a value that is used more than once is bound with Let1 .. Let3, so   *)
(*    that it is computed once, like a const of the code.                  *)
(***************************************************************************)
EXTENDS Integers, Sequences, FiniteSets, TLC

VARIABLES
  svc,    \* the AnimationRetargetService and the skeletons and clip it holds
  rt,     \* the Retargeter instances: instance id -> its fields
  clock,  \* wall-clock time in steps of 50 ms (performance.now / rAF timestamp)
  cfg     \* the HumanChainConfig builders' last inputs and results

vars == <<svc, rt, clock, cfg>>

-----------------------------------------------------------------------------
(* Bounds of the model.                                                    *)

MaxCalls == 2      \* update / bake / additive calls made on one Retargeter
MaxClock == 1      \* the wall clock runs from 0 to MaxClock steps
MaxFps == 2        \* the largest frame rate a caller passes to bake, besides 30
MaxEntries == 2    \* entries of a correspondence table that is built up by hand

-----------------------------------------------------------------------------
(* const x = v; F(x): the value of F at v, with v computed once.           *)

Let1(v, F(_)) == CHOOSE z \in {F(x) : x \in {v}} : TRUE
Let2(v, w, F(_, _)) == CHOOSE z \in {F(x, y) : x \in {v}, y \in {w}} : TRUE
Let3(u, v, w, F(_, _, _)) ==
  CHOOSE z \in {F(x, y, t) : x \in {u}, y \in {v}, t \in {w}} : TRUE

-----------------------------------------------------------------------------
(* Strings: the JavaScript string operations the code relies on.           *)

\* String.prototype.includes: substring search.
Includes(s, sub) ==
  Let2(s, sub, LAMBDA str, part :
    \E i \in 1..(Len(str) - Len(part) + 1) : SubSeq(str, i, i + Len(part) - 1) = part)

UpperChars == <<"A","B","C","D","E","F","G","H","I","J","K","L","M",
                "N","O","P","Q","R","S","T","U","V","W","X","Y","Z">>
LowerChars == <<"a","b","c","d","e","f","g","h","i","j","k","l","m",
                "n","o","p","q","r","s","t","u","v","w","x","y","z">>

LowerChar(c) ==
  Let1(c, LAMBDA ch :
    IF \E k \in 1..26 : UpperChars[k] = ch
    THEN LowerChars[CHOOSE k \in 1..26 : UpperChars[k] = ch]
    ELSE ch)

\* String.prototype.toLowerCase: every character in lower case (the string is
\* taken by halves).
RECURSIVE ToLowerCase(_)
ToLowerCase(s) ==
  Let1(s, LAMBDA str :
    IF Len(str) = 0 THEN ""
    ELSE IF Len(str) = 1 THEN LowerChar(str)
    ELSE ToLowerCase(SubSeq(str, 1, Len(str) \div 2))
         \o ToLowerCase(SubSeq(str, (Len(str) \div 2) + 1, Len(str))))

IsSpace(c) == c \in {" ", "\t", "\n"}

\* String.prototype.trim: white space removed at both ends.
RECURSIVE TrimStart(_)
TrimStart(s) ==
  Let1(s, LAMBDA str :
    IF Len(str) > 0 /\ IsSpace(SubSeq(str, 1, 1))
    THEN TrimStart(SubSeq(str, 2, Len(str)))
    ELSE str)

RECURSIVE TrimEnd(_)
TrimEnd(s) ==
  Let1(s, LAMBDA str :
    IF Len(str) > 0 /\ IsSpace(SubSeq(str, Len(str), Len(str)))
    THEN TrimEnd(SubSeq(str, 1, Len(str) - 1))
    ELSE str)

Trim(s) == TrimEnd(TrimStart(s))

-----------------------------------------------------------------------------
(* HumanChainConfig: the reference chain configurations.                   *)

\* The roles in the order of the configurations' keys.
ConfigRoles ==
  <<"pelvis", "spine", "head", "armL", "armR", "legL", "legR",
    "fingersThumbL", "fingersThumbR", "fingersIndexL", "fingersIndexR",
    "fingersMiddleL", "fingersMiddleR", "fingersRingL", "fingersRingR",
    "fingersPinkyL", "fingersPinkyR">>

RoleSet == {ConfigRoles[i] : i \in 1..Len(ConfigRoles)}

mesh2motion_config ==
  [pelvis |-> <<"DEF-hips">>,
   spine |-> <<"DEF-spine001", "DEF-spine002", "DEF-spine003">>,
   head |-> <<"DEF-neck", "DEF-head">>,
   armL |-> <<"DEF-upper_armL", "DEF-forearmL", "DEF-handL">>,
   armR |-> <<"DEF-upper_armR", "DEF-forearmR", "DEF-handR">>,
   legL |-> <<"DEF-thighL", "DEF-shinL", "DEF-footL">>,
   legR |-> <<"DEF-thighR", "DEF-shinR", "DEF-footR">>,
   fingersThumbL |-> <<"DEF-thumb01L", "DEF-thumb02L", "DEF-thumb03L", "DEF-thumb04_tipL">>,
   fingersThumbR |-> <<"DEF-thumb01R", "DEF-thumb02R", "DEF-thumb03R", "DEF-thumb04_tipR">>,
   fingersIndexL |-> <<"DEF-f_index01L", "DEF-f_index02L", "DEF-f_index03L", "DEF-f_index04_tipL">>,
   fingersIndexR |-> <<"DEF-f_index01R", "DEF-f_index02R", "DEF-f_index03R", "DEF-f_index04_tipR">>,
   fingersMiddleL |-> <<"DEF-f_middle01L", "DEF-f_middle02L", "DEF-f_middle03L", "DEF-f_middle04_tipL">>,
   fingersMiddleR |-> <<"DEF-f_middle01R", "DEF-f_middle02R", "DEF-f_middle03R", "DEF-f_middle04_tipR">>,
   fingersRingL |-> <<"DEF-f_ring01L", "DEF-f_ring02L", "DEF-f_ring03L", "DEF-f_ring04_tipL">>,
   fingersRingR |-> <<"DEF-f_ring01R", "DEF-f_ring02R", "DEF-f_ring03R", "DEF-f_ring04_tipR">>,
   fingersPinkyL |-> <<"DEF-f_pinky01L", "DEF-f_pinky02L", "DEF-f_pinky03L", "DEF-f_pinky04_tipL">>,
   fingersPinkyR |-> <<"DEF-f_pinky01R", "DEF-f_pinky02R", "DEF-f_pinky03R", "DEF-f_pinky04_tipR">>]

mixamo_config ==
  [pelvis |-> <<"mixamorigHips">>,
   spine |-> <<"mixamorigSpine", "mixamorigSpine1", "mixamorigSpine2">>,
   head |-> <<"mixamorigNeck", "mixamorigHead">>,
   armL |-> <<"mixamorigLeftArm", "mixamorigLeftForeArm", "mixamorigLeftHand">>,
   armR |-> <<"mixamorigRightArm", "mixamorigRightForeArm", "mixamorigRightHand">>,
   legL |-> <<"mixamorigLeftUpLeg", "mixamorigLeftLeg", "mixamorigLeftFoot">>,
   legR |-> <<"mixamorigRightUpLeg", "mixamorigRightLeg", "mixamorigRightFoot">>,
   fingersThumbL |-> <<"mixamorigLeftHandThumb1", "mixamorigLeftHandThumb2", "mixamorigLeftHandThumb3", "mixamorigLeftHandThumb4">>,
   fingersThumbR |-> <<"mixamorigRightHandThumb1", "mixamorigRightHandThumb2", "mixamorigRightHandThumb3", "mixamorigRightHandThumb4">>,
   fingersIndexL |-> <<"mixamorigLeftHandIndex1", "mixamorigLeftHandIndex2", "mixamorigLeftHandIndex3", "mixamorigLeftHandIndex4">>,
   fingersIndexR |-> <<"mixamorigRightHandIndex1", "mixamorigRightHandIndex2", "mixamorigRightHandIndex3", "mixamorigRightHandIndex4">>,
   fingersMiddleL |-> <<"mixamorigLeftHandMiddle1", "mixamorigLeftHandMiddle2", "mixamorigLeftHandMiddle3", "mixamorigLeftHandMiddle4">>,
   fingersMiddleR |-> <<"mixamorigRightHandMiddle1", "mixamorigRightHandMiddle2", "mixamorigRightHandMiddle3", "mixamorigRightHandMiddle4">>,
   fingersRingL |-> <<"mixamorigLeftHandRing1", "mixamorigLeftHandRing2", "mixamorigLeftHandRing3", "mixamorigLeftHandRing4">>,
   fingersRingR |-> <<"mixamorigRightHandRing1", "mixamorigRightHandRing2", "mixamorigRightHandRing3", "mixamorigRightHandRing4">>,
   fingersPinkyL |-> <<"mixamorigLeftHandPinky1", "mixamorigLeftHandPinky2", "mixamorigLeftHandPinky3", "mixamorigLeftHandPinky4">>,
   fingersPinkyR |-> <<"mixamorigRightHandPinky1", "mixamorigRightHandPinky2", "mixamorigRightHandPinky3", "mixamorigRightHandPinky4">>]

\* A bone correspondence table (Map<string, string>, target name -> source
\* name) is a sequence of <<key, value>> pairs in insertion order, keys distinct.
MapKeys(m) == {m[i][1] : i \in 1..Len(m)}
MapValues(m) == {m[i][2] : i \in 1..Len(m)}

\* flat_bone_name_list: the values joined, each followed by a comma.
RECURSIVE flat_bone_name_list(_)
flat_bone_name_list(m) ==
  Let1(m, LAMBDA bones_list :
    IF Len(bones_list) = 0 THEN ""
    ELSE bones_list[1][2] \o "," \o flat_bone_name_list(Tail(bones_list)))

\* A substring test on the joined values decides whether a slot is kept.
SlotIsMapped(flat, bone_name) == Includes(flat, bone_name)

\* The loop of build_custom_source_config on base_source_config: every slot
\* that the flattened value list does not include is blanked.
BlankUnmapped(base_source_config, bone_mapping) ==
  Let2(base_source_config, flat_bone_name_list(bone_mapping),
    LAMBDA base, flat_source_bone_names :
      [chain_name \in DOMAIN base |->
         [i \in 1..Len(base[chain_name]) |->
            IF SlotIsMapped(flat_source_bone_names, base[chain_name][i])
            THEN base[chain_name][i]
            ELSE ""]])

\* build_custom_source_config: a clone of mesh2motion_config in which every
\* slot that the flattened value list does not include is blanked.
build_custom_source_config(bone_mapping) == BlankUnmapped(mesh2motion_config, bone_mapping)

\* A reverse lookup that handed back the source name it was asked for.
ReverseGetSourceName(bone_mapping, name) == name

\* new Map(entries.map(([key, value]) => [value, key])).get(name): the key of the
\* LAST entry whose value is name (a later entry overwrites an earlier one).
ReverseHas(bone_mapping, name) == \E i \in 1..Len(bone_mapping) : bone_mapping[i][2] = name
ReverseGet(bone_mapping, name) ==
  LET last == CHOOSE i \in 1..Len(bone_mapping) :
                /\ bone_mapping[i][2] = name
                /\ \A j \in (i+1)..Len(bone_mapping) : bone_mapping[j][2] # name
  IN bone_mapping[last][1]

\* build_custom_target_config: a clone of the source configuration in which a
\* non-empty slot holds the reverse-mapped target name, or "" when there is none.
build_custom_target_config(source_config, bone_mapping) ==
  Let2(source_config, bone_mapping, LAMBDA config, mapping :
    [chain_name \in DOMAIN config |->
       [i \in 1..Len(config[chain_name]) |->
          LET source_bone_name == config[chain_name][i]
          IN IF source_bone_name = "" THEN ""
             ELSE IF ReverseHas(mapping, source_bone_name)
                  THEN ReverseGet(mapping, source_bone_name)
                  ELSE ""]])

\* The configurations as objects: the sequence of the configuration objects
\* there are, the first the static mesh2motion_config, the second the static
\* mixamo_config; an object is referred to by its position.
StaticConfigs == <<mesh2motion_config, mixamo_config>>

\* A clone that handed the object on in place of a copy of it.
SameObject(objects, ref) == [objects |-> objects, ref |-> ref]

\* structuredClone(object): a new object of the same contents.
structuredClone(objects, ref) ==
  [objects |-> Append(objects, objects[ref]), ref |-> Len(objects) + 1]

\* build_custom_source_config on the objects: the clone of the static
\* mesh2motion_config is written in place and returned.
build_custom_source_config_in(objects, bone_mapping) ==
  Let1(structuredClone(objects, 1), LAMBDA c :
    [objects |-> [c.objects EXCEPT ![c.ref] = BlankUnmapped(@, bone_mapping)],
     ref |-> c.ref])

\* build_custom_target_config on the objects: the clone of the source
\* configuration passed is written in place and returned.
build_custom_target_config_in(objects, source_config, bone_mapping) ==
  Let1(structuredClone(objects, source_config), LAMBDA c :
    [objects |-> [c.objects EXCEPT ![c.ref] = build_custom_target_config(@, bone_mapping)],
     ref |-> c.ref])

-----------------------------------------------------------------------------
(* Vec3, Quat and Transform.                                               *)

NaNVec == <<"NaN">>
NaNQuat == <<"NaN">>
IsNaN(x) == Len(x) = 1

ZeroVec == <<0, 0, 0>>
IsZeroVec(v) == v = ZeroVec

Sgn(n) == IF n > 0 THEN 1 ELSE IF n < 0 THEN -1 ELSE 0
SignVec(v) == Let1(v, LAMBDA a : <<Sgn(a[1]), Sgn(a[2]), Sgn(a[3])>>)
IsAxisAligned(v) == Let1(v, LAMBDA a : Cardinality({k \in 1..3 : a[k] # 0}) = 1)

fromAdd(a, b) ==
  Let2(a, b, LAMBDA x, y :
    IF IsNaN(x) \/ IsNaN(y) THEN NaNVec
    ELSE <<x[1] + y[1], x[2] + y[2], x[3] + y[3]>>)

fromSub(a, b) ==
  Let2(a, b, LAMBDA x, y :
    IF IsNaN(x) \/ IsNaN(y) THEN NaNVec
    ELSE <<x[1] - y[1], x[2] - y[2], x[3] - y[3]>>)

vscale(v, k) == Let2(v, k, LAMBDA a, n : <<n * a[1], n * a[2], n * a[3]>>)

dot(a, b) == Let2(a, b, LAMBDA x, y : x[1] * y[1] + x[2] * y[2] + x[3] * y[3])

cross(a, b) ==
  Let2(a, b, LAMBDA x, y :
    <<x[2] * y[3] - x[3] * y[2], x[3] * y[1] - x[1] * y[3], x[1] * y[2] - x[2] * y[1]>>)

\* The identity rotation.
QuatIdentity == <<<<1, 0, 0>>, <<0, 1, 0>>, <<0, 0, 1>>>>

\* Vec3.fromQuat(q, v): the vector v rotated by q.
fromQuat(q, v) ==
  Let2(q, v, LAMBDA m, x :
    IF IsNaN(m) \/ IsNaN(x) THEN NaNVec
    ELSE <<m[1][1] * x[1] + m[2][1] * x[2] + m[3][1] * x[3],
           m[1][2] * x[1] + m[2][2] * x[2] + m[3][2] * x[3],
           m[1][3] * x[1] + m[2][3] * x[2] + m[3][3] * x[3]>>)

\* Quat a.mul(b): the rotation b followed by the rotation a.
mul(a, b) ==
  Let2(a, b, LAMBDA x, y :
    IF IsNaN(x) \/ IsNaN(y) THEN NaNQuat
    ELSE LET col(j) ==
               <<x[1][1] * y[j][1] + x[2][1] * y[j][2] + x[3][1] * y[j][3],
                 x[1][2] * y[j][1] + x[2][2] * y[j][2] + x[3][2] * y[j][3],
                 x[1][3] * y[j][1] + x[2][3] * y[j][2] + x[3][3] * y[j][3]>>
         IN <<col(1), col(2), col(3)>>)

\* Quat.fromInvert(q): the inverse rotation (the transposed matrix).
fromInvert(q) ==
  Let1(q, LAMBDA m :
    IF IsNaN(m) THEN NaNQuat
    ELSE <<<<m[1][1], m[2][1], m[3][1]>>,
           <<m[1][2], m[2][2], m[3][2]>>,
           <<m[1][3], m[2][3], m[3][3]>>>>)

\* Quat q.pmul(b): b applied on top of q.
pmul(q, b) == mul(b, q)

\* Quat q.pmulInvert(b): q brought into the local space of b.
pmulInvert(q, b) == mul(fromInvert(b), q)

\* The matrix of a linear map given on the three axes.
MatrixOf(f(_)) == <<f(<<1, 0, 0>>), f(<<0, 1, 0>>), f(<<0, 0, 1>>)>>

\* A quarter turn about the unit axis n: v -> (n.v) n + n x v.
QuarterTurn(n) ==
  Let1(n, LAMBDA a :
    LET f(v) == fromAdd(vscale(a, dot(a, v)), cross(a, v)) IN MatrixOf(f))

\* A half turn about the unit axis n: v -> 2 (n.v) n - v.
HalfTurn(n) ==
  Let1(n, LAMBDA a :
    LET f(v) == fromSub(vscale(a, 2 * dot(a, v)), v) IN MatrixOf(f))

\* Quat.fromSwing(a, b): the shortest rotation that takes direction a onto
\* direction b. Opposite directions turn half about LEFT x a (or UP x a).
fromSwing(a, b) ==
  Let2(a, b, LAMBDA x, y :
    IF IsNaN(x) \/ IsNaN(y) THEN NaNQuat
    ELSE Let3(dot(x, y), cross(x, y), cross(<<1, 0, 0>>, x), LAMBDA d, c, left :
           CASE IsZeroVec(c) /\ d >= 0 -> QuatIdentity
             [] IsZeroVec(c) /\ d < 0 /\ ~IsZeroVec(left) /\ IsAxisAligned(left) ->
                  HalfTurn(SignVec(left))
             [] IsZeroVec(c) /\ d < 0 /\ IsZeroVec(left) ->
                  HalfTurn(SignVec(cross(<<0, 1, 0>>, x)))
             [] ~IsZeroVec(c) /\ d = 0 /\ IsAxisAligned(c) -> QuarterTurn(SignVec(c))))

\* Vec3.fromLerp(a, b, t).norm() for t = num / den: the direction of
\* a (den - num) + b num, at the length of a. A zero denominator is 0 / 0 = NaN.
fromLerpNorm(a, b, num, den) ==
  Let2(a, b, LAMBDA x, y :
    IF den = 0 \/ IsNaN(x) \/ IsNaN(y) THEN NaNVec
    ELSE IF num = 0 \/ x = y THEN x
    ELSE IF num = den THEN y
    ELSE Let1(fromAdd(vscale(x, den - num), vscale(y, num)), LAMBDA m :
           IF IsZeroVec(m) THEN NaNVec
           ELSE IF IsAxisAligned(m) /\ IsAxisAligned(x)
                THEN LET len == CHOOSE k \in 1..3 : x[k] # 0
                     IN vscale(SignVec(m), Sgn(x[len]) * x[len])
                ELSE m))

\* A Transform is a rotation and a position (scale is not used).
TransformIdentity == [rot |-> QuatIdentity, pos |-> ZeroVec]

\* Transform.fromMul(p, c): the child transform c in the space of p.
fromMul(p, c) ==
  CHOOSE t \in {[rot |-> mul(x.rot, y.rot), pos |-> fromAdd(x.pos, fromQuat(x.rot, y.pos))] :
                  x \in {p}, y \in {c}} : TRUE

\* Transform.toLocalPos(t, pos): a world position in the space of t.
toLocalPos(t, pos) ==
  Let1(t, LAMBDA x : fromQuat(fromInvert(x.rot), fromSub(pos, x.pos)))

-----------------------------------------------------------------------------
(* Skeleton, Joint and Pose.                                               *)
(* A skeleton is the sequence of its bones [name, pindex, rot, pos]; the   *)
(* code's index i (from 0, parent -1 for a root) is position i + 1.        *)

At(seq, idx) == seq[idx + 1]
Indexes(seq) == 0..(Len(seq) - 1)

Bone(name, pindex, rot, pos) == [name |-> name, pindex |-> pindex, rot |-> rot, pos |-> pos]

LocalOf(b) == Let1(b, LAMBDA e : [rot |-> e.rot, pos |-> e.pos])

\* The indexes of the entries from the root down to entry idx.
RECURSIVE PathTo(_, _)
PathTo(entries, idx) ==
  IF idx = -1 THEN <<>> ELSE Append(PathTo(entries, entries[idx + 1].pindex), idx)

\* The locals of the count entries path[n].. composed in their order.
RECURSIVE WorldAlong(_, _, _, _)
WorldAlong(entries, path, n, count) ==
  IF count = 1 THEN LocalOf(entries[path[n] + 1])
  ELSE fromMul(WorldAlong(entries, path, n, count \div 2),
               WorldAlong(entries, path, n + (count \div 2), count - (count \div 2)))

\* The world transform of entry idx of a sequence of [pindex, rot, pos]
\* entries: the locals composed from the root down; -1 is the identity.
WorldOf(entries, idx) ==
  IF idx = -1 THEN TransformIdentity
  ELSE Let2(entries, PathTo(entries, idx), LAMBDA es, path :
         WorldAlong(es, path, 1, Len(path)))

\* new Pose(skel): one Joint per bone, its local transform read from the bone
\* and its world transform computed once.  A pose is an object: "object"
\* tells the pose a rig made for its bind pose from a copy made of it.
Pose(skel) ==
  Let1(skel, LAMBDA bones :
    [object |-> "bind",
     joints |->
       [n \in 1..Len(bones) |->
          [index |-> n - 1,
           pindex |-> bones[n].pindex,
           name |-> bones[n].name,
           local |-> LocalOf(bones[n]),
           world |-> WorldOf(bones, n - 1)]]])

\* A clone that handed the pose on in place of a copy of it.
SamePose(pose) == pose

\* Pose.clone(): an independent copy.
clone(pose) == [pose EXCEPT !.object = "working"]

\* A write of the Retargeter's working pose: it is seen by every holder of
\* that object.
WritePose(r, pose) ==
  [r EXCEPT !.pose = pose,
            !.tarRig.tpose = IF @.object = pose.object THEN pose ELSE @]

\* Pose.getJoint(name): the joint of that name, if any.
HasJoint(pose, n) ==
  Let1(pose.joints, LAMBDA joints : \E i \in 1..Len(joints) : joints[i].name = n)
getJoint(pose, n) ==
  Let1(pose.joints, LAMBDA joints :
    joints[CHOOSE i \in 1..Len(joints) : joints[i].name = n])

JointEntries(pose) ==
  Let1(pose.joints, LAMBDA joints :
    [n \in 1..Len(joints) |->
       [pindex |-> joints[n].pindex,
        rot |-> joints[n].local.rot,
        pos |-> joints[n].local.pos]])

\* Pose.getWorld(id): the world transform of a joint from the current locals.
getWorld(pose, id) == WorldOf(JointEntries(pose), id)

\* Pose.setRot / Pose.setPos: write one joint's local rotation / position.
setRot(pose, idx, rot) == [pose EXCEPT !.joints[idx + 1].local.rot = rot]
setPos(pose, idx, pos) == [pose EXCEPT !.joints[idx + 1].local.pos = pos]

\* Pose.toSkeleton(skel): the locals written to the skeleton's bones.
toSkeleton(pose, skel) ==
  Let2(pose.joints, skel, LAMBDA joints, bones :
    [n \in 1..Len(bones) |->
       [bones[n] EXCEPT !.rot = joints[n].local.rot,
                        !.pos = joints[n].local.pos]])

-----------------------------------------------------------------------------
(* RigItem and Rig.                                                        *)

\* RigItem.fromJoint: the reference axes brought into the joint's bind frame.
fromJoint(j, swing, twist) ==
  Let2(j, fromInvert(j.world.rot), LAMBDA joint, q :
    [idx |-> joint.index, pidx |-> joint.pindex,
     swing |-> fromQuat(q, swing), twist |-> fromQuat(q, twist)])

\* new Rig(skel): the skeleton, its bind pose, no chains, scalar 1.
Rig(skel) ==
  Let1(skel, LAMBDA bones :
    [skel |-> bones, tpose |-> Pose(bones), chains |-> <<>>, scalar |-> 1])

\* A switch that gave every role the axes of the pelvis.
PelvisAxesForAll(k) == [swing |-> <<0, 0, 1000>>, twist |-> <<0, 1000, 0>>]

\* The reference swing / twist axes of Rig.fromConfig's switch, in thousandths.
RoleAxes(k) ==
  CASE k \in {"pelvis", "head"} -> [swing |-> <<0, 0, 1000>>, twist |-> <<0, 1000, 0>>]
    [] k = "spine" -> [swing |-> <<0, 1000, 0>>, twist |-> <<0, 0, 1000>>]
    [] k = "armL" -> [swing |-> <<1000, 0, 0>>, twist |-> <<0, 0, -1000>>]
    [] k = "armR" -> [swing |-> <<-1000, 0, 0>>, twist |-> <<0, 0, -1000>>]
    [] k \in {"legL", "legR"} -> [swing |-> <<0, 0, 1000>>, twist |-> <<0, -1000, 0>>]
    [] k = "fingersThumbL" -> [swing |-> <<500, 0, 866>>, twist |-> <<0, -1000, 0>>]
    [] k \in {"fingersIndexL", "fingersMiddleL", "fingersRingL", "fingersPinkyL"} ->
         [swing |-> <<1000, 0, 0>>, twist |-> <<0, 0, -1000>>]
    [] k = "fingersThumbR" -> [swing |-> <<-500, 0, 866>>, twist |-> <<0, -1000, 0>>]
    [] k \in {"fingersIndexR", "fingersMiddleR", "fingersRingR", "fingersPinkyR"} ->
         [swing |-> <<-1000, 0, 0>>, twist |-> <<0, 0, -1000>>]

\* The RigItems of the names that are joints of the bind pose, in order.
RECURSIVE RigItemsOf(_, _, _, _)
RigItemsOf(tpose, names, swing, twist) ==
  Let2(tpose, names, LAMBDA pose, ns :
    IF Len(ns) = 0 THEN <<>>
    ELSE IF ~HasJoint(pose, Head(ns))
         THEN RigItemsOf(pose, Tail(ns), swing, twist)
         ELSE <<fromJoint(getJoint(pose, Head(ns)), swing, twist)>>
              \o RigItemsOf(pose, Tail(ns), swing, twist))

\* chains[k] = v on a Record<string, RigItem[]>.
PutChain(chains, k, v) ==
  Let2(chains, v, LAMBDA cs, items :
    [x \in (DOMAIN cs) \cup {k} |-> IF x = k THEN items ELSE cs[x]])

\* Rig.buildItem.
buildItem(rig, k, names, swing, twist) ==
  Let1(rig, LAMBDA g :
    [g EXCEPT !.chains = PutChain(@, k, RigItemsOf(g.tpose, names, swing, twist))])

\* Rig.buildRigScalar reads ch[0].idx: a TypeError on an empty chain.
buildRigScalarThrows(rig, chain_key) == Len(rig.chains[chain_key]) = 0

\* Rig.buildRigScalar: the bind-pose world height (Y) of the chain's first joint.
buildRigScalar(rig, chain_key) ==
  Let1(rig, LAMBDA g :
    [g EXCEPT !.scalar = At(g.tpose.joints, g.chains[chain_key][1].idx).world.pos[2]])

\* Rig.fromConfig over the entries of the roles given, in their order: a
\* result [rig, threw]; a raise ends the loop.  A configuration maps a role to
\* its list of joint names (the entry's names).  The roles are taken by
\* halves, the first half before the second.
RECURSIVE fromConfigFrom(_, _, _)
fromConfigFrom(rig, config, roles) ==
  Let3(rig, config, roles, LAMBDA g, c, ks :
    IF Len(ks) = 0 THEN [rig |-> g, threw |-> FALSE]
    ELSE IF Len(ks) > 1
    THEN Let1(fromConfigFrom(g, c, SubSeq(ks, 1, Len(ks) \div 2)), LAMBDA first :
           IF first.threw THEN first
           ELSE fromConfigFrom(first.rig, c, SubSeq(ks, (Len(ks) \div 2) + 1, Len(ks))))
    ELSE LET k == Head(ks) IN
         IF k \notin DOMAIN c \/ Len(c[k]) = 0
         THEN [rig |-> g, threw |-> FALSE]
         ELSE Let1(buildItem(g, k, c[k], RoleAxes(k).swing, RoleAxes(k).twist),
                LAMBDA built :
                  IF k # "pelvis" THEN [rig |-> built, threw |-> FALSE]
                  ELSE IF buildRigScalarThrows(built, k)
                       THEN [rig |-> built, threw |-> TRUE]
                       ELSE [rig |-> buildRigScalar(built, k), threw |-> FALSE]))

\* Rig.fromConfig(cfg).
fromConfig(rig, config) == fromConfigFrom(rig, config, ConfigRoles)

-----------------------------------------------------------------------------
(* The source animation clip and its playback (THREE.AnimationMixer).      *)
(* A clip is [name, duration, tracks]; a track gives, for one bone name,   *)
(* the rotation (and, with a position track, the position) the clip holds  *)
(* over each of equally long phases of its duration.                       *)

\* Time is counted in ticks of 1/3000 s: 0.001 s and 1/30 s are whole ticks.
TicksPerSec == 30 * 100

\* One step of the wall clock is 50 ms.
ClockStepTicks == TicksPerSec \div 20

\* The value a track holds at action time t.
SampleAt(values, t, duration) ==
  Let1(values, LAMBDA vs :
    IF duration = 0 THEN vs[1]
    ELSE vs[((t * Len(vs)) \div duration) + 1])

\* The action time after mixer.update(dt): the default LoopRepeat wraps the
\* time at the clip's duration.
AdvanceTime(time, dt, duration) ==
  IF duration = 0 THEN 0 ELSE (time + dt) % duration

HasTrack(clip, name) == \E i \in 1..Len(clip.tracks) : clip.tracks[i].bone = name
TrackOf(clip, name) ==
  clip.tracks[CHOOSE i \in 1..Len(clip.tracks) : clip.tracks[i].bone = name]

\* The source skeleton after the mixer applied the clip at time t: a bone with
\* a track takes the track's value, any other bone keeps what it had.
ApplyClip(skel, clip, t) ==
  Let3(skel, clip, t, LAMBDA bones, c, time :
    [n \in 1..Len(bones) |->
       IF ~HasTrack(c, bones[n].name) THEN bones[n]
       ELSE Let1(TrackOf(c, bones[n].name), LAMBDA tr :
              [bones[n] EXCEPT
                 !.rot = SampleAt(tr.rot, time, c.duration),
                 !.pos = IF Len(tr.pos) = 0 THEN @
                         ELSE SampleAt(tr.pos, time, c.duration)])])

-----------------------------------------------------------------------------
(* Retargeter.                                                             *)
(* A Retargeter is the record of its fields; srcSkel and tarSkel are the   *)
(* current bones of the two THREE skeletons the rigs refer to.  A pass     *)
(* works on m = [pose, threw, log]: the working pose, whether a TypeError  *)
(* was raised, and the operations performed so far in this update.         *)

\* new Retargeter(source_rig, target_rig, clip).
Retargeter(source_rig, target_rig, clip) ==
  Let2(source_rig, target_rig, LAMBDA src, tar :
    [srcRig |-> src, tarRig |-> tar, clip |-> clip,
     pose |-> clone(tar.tpose),
     time |-> 0,
     additives |-> <<>>,
     srcSkel |-> src.skel,
     tarSkel |-> tar.skel])

\* A TypeError raised in a pass: the update ends there.
Throw(m, pass) == [m EXCEPT !.threw = TRUE, !.log = Append(@, <<"TypeError">> \o pass)]
Logged(m, e) == [m EXCEPT !.log = Append(@, e)]

HasChain(rig, k) == k \in DOMAIN rig.chains

\* Retargeter.getWorld(skel, bone_idx): the bone's world transform.
BoneWorld(skel, bone_idx) == WorldOf(skel, bone_idx)

\* A translation that took the source's displacement as it is.
Unscaled(v, num, den) == v

\* Vec3.scale(tarRig.scalar / srcRig.scalar); a zero divisor gives no number.
ScaleByRatio(v, num, den) ==
  Let1(v, LAMBDA a :
    IF den = 0 \/ IsNaN(a) THEN NaNVec
    ELSE <<(a[1] * num) \div den, (a[2] * num) \div den, (a[3] * num) \div den>>)

\* Which joint applyScaledTranslation writes the position of.
TranslatedJoint(tar) == tar.idx

\* Retargeter.applyScaledTranslation(k): chains[k][0] raises a TypeError when
\* either rig has no chain k, and src.idx / tar.idx when the chain is empty.
applyScaledTranslation(r, m, k) ==
  IF ~HasChain(r.srcRig, k) \/ ~HasChain(r.tarRig, k) THEN Throw(m, <<"translate", k>>)
  ELSE IF Len(r.srcRig.chains[k]) = 0 \/ Len(r.tarRig.chains[k]) = 0
       THEN Throw(m, <<"translate", k>>)
  ELSE LET src == r.srcRig.chains[k][1]
           tar == r.tarRig.chains[k][1]
           source_t_pose_joint == At(r.srcRig.tpose.joints, src.idx)
           source_ws_transform == BoneWorld(r.srcSkel, src.idx)
           transform_offset ==
             ScaleByRatio(fromSub(source_ws_transform.pos, source_t_pose_joint.world.pos),
                          r.tarRig.scalar, r.srcRig.scalar)
       IN Let1(getWorld(m.pose, tar.pidx), LAMBDA parent_transform :
            LET ctran == fromMul(parent_transform, At(r.tarRig.tpose.joints, tar.idx).local)
                pos == fromAdd(ctran.pos, transform_offset)
            IN [m EXCEPT
                  !.pose = setPos(@, TranslatedJoint(tar), toLocalPos(parent_transform, pos)),
                  !.log = Append(@, <<"translate", k, tar.idx>>)])

\* A rotation pass that wrote to the parent of the chain joint instead.
ParentJoint(itm) == IF itm.pidx >= 0 THEN itm.pidx ELSE itm.idx

\* Which joint a rotation pass writes the rotation of.
RotatedJoint(itm) == itm.idx

\* The body of applyChain's loop for one pair of chain items: the local
\* rotation of the target joint, by swing first and twist second.
ChainJointRotation(r, pose, src_item, tar_item) ==
  LET joint == At(r.tarRig.tpose.joints, tar_item.idx) IN
  Let2(BoneWorld(r.srcSkel, src_item.idx).rot, getWorld(pose, joint.pindex),
    LAMBDA source_rotation, parent_transform :
      LET source_swing == fromQuat(source_rotation, src_item.swing)
          source_twist == fromQuat(source_rotation, src_item.twist)
      IN Let1(fromMul(parent_transform, joint.local), LAMBDA current_transform :
           LET swing_direction == fromQuat(current_transform.rot, tar_item.swing)
           IN Let1(mul(fromSwing(swing_direction, source_swing), current_transform.rot),
                LAMBDA final_rotation :
                  LET twist_direction == fromQuat(final_rotation, tar_item.twist)
                      target_rotation == fromSwing(twist_direction, source_twist)
                  IN pmulInvert(pmul(final_rotation, target_rotation),
                                parent_transform.rot))))

\* applyChain's loop from joint i (from 1) on: tar[i].idx raises a TypeError
\* when the target rig has no such chain or a shorter one.
RECURSIVE applyChainFrom(_, _, _, _)
applyChainFrom(r, m, k, i) ==
  IF i > Len(r.srcRig.chains[k]) THEN m
  ELSE IF ~HasChain(r.tarRig, k) THEN Throw(m, <<"chain", k>>)
  ELSE IF i > Len(r.tarRig.chains[k]) THEN Throw(m, <<"chain", k>>)
  ELSE LET src_item == r.srcRig.chains[k][i]
           tar_item == r.tarRig.chains[k][i]
       IN Let1([m EXCEPT
                  !.pose = setRot(@, RotatedJoint(tar_item),
                                  ChainJointRotation(r, m.pose, src_item, tar_item)),
                  !.log = Append(@, <<"rot", k, tar_item.idx>>)],
            LAMBDA m2 : applyChainFrom(r, m2, k, i + 1))

\* Retargeter.applyChain(k): `src === null` does not hold for a role that has
\* no chain (undefined), so src.length raises a TypeError.
applyChain(r, m, k) ==
  IF ~HasChain(r.srcRig, k) THEN Throw(m, <<"chain", k>>)
  ELSE Let1(Logged(m, <<"pass", k>>), LAMBDA m1 : applyChainFrom(r, m1, k, 1))

\* Retargeter.applySwingTwist: the local rotation that points the joint's
\* swing axis along tar_swing_dir and then its twist axis along tar_twist_dir.
applySwingTwist(rig_item, tar_swing_dir, tar_twist_dir, tpose, current_pose) ==
  LET j == At(tpose.joints, rig_item.idx) IN
  Let1(getWorld(current_pose, j.pindex), LAMBDA ptran :
    Let1(fromMul(ptran, j.local), LAMBDA ctran :
      LET swing_dir == fromQuat(ctran.rot, rig_item.swing)
      IN Let1(mul(fromSwing(swing_dir, tar_swing_dir), ctran.rot), LAMBDA source_rot :
           LET twist_dir == fromQuat(source_rot, rig_item.twist)
           IN pmulInvert(mul(fromSwing(twist_dir, tar_twist_dir), source_rot),
                         ptran.rot))))

\* The interpolation parameter t = i / rig_items_count as <<numerator, denominator>>.
InterpT(i, rig_items_count) == <<i, rig_items_count>>

\* applyEndInterp's loop from target joint i (from 0) on.
RECURSIVE applyEndInterpFrom(_, _, _, _)
applyEndInterpFrom(r, m, k, i) ==
  LET src == r.srcRig.chains[k]
      tar == r.tarRig.chains[k]
      rig_items_count == Len(tar) - 1
  IN IF i > rig_items_count THEN m
     ELSE Let2(BoneWorld(r.srcSkel, src[1].idx).rot,
               BoneWorld(r.srcSkel, src[Len(src)].idx).rot,
            LAMBDA aRot, bRot :
              LET aSwing == fromQuat(aRot, src[1].swing)
                  aTwist == fromQuat(aRot, src[1].twist)
                  bSwing == fromQuat(bRot, src[Len(src)].swing)
                  bTwist == fromQuat(bRot, src[Len(src)].twist)
                  itm == tar[i + 1]
                  t == InterpT(i, rig_items_count)
                  target_dir == fromLerpNorm(aSwing, bSwing, t[1], t[2])
                  target_twist == fromLerpNorm(aTwist, bTwist, t[1], t[2])
              IN Let1([m EXCEPT
                         !.pose = setRot(@, RotatedJoint(itm),
                                    applySwingTwist(itm, target_dir, target_twist,
                                                    r.tarRig.tpose, m.pose)),
                         !.log = Append(@, <<"rot", k, itm.idx>>)],
                   LAMBDA m2 : applyEndInterpFrom(r, m2, k, i + 1)))

\* Retargeter.applyEndInterp(k): src[0].idx raises a TypeError when the source
\* chain is missing or empty, tar.length when the target chain is missing.
applyEndInterp(r, m, k) ==
  IF ~HasChain(r.srcRig, k) THEN Throw(m, <<"interp", k>>)
  ELSE IF Len(r.srcRig.chains[k]) = 0 THEN Throw(m, <<"interp", k>>)
  ELSE IF ~HasChain(r.tarRig, k) THEN Throw(m, <<"interp", k>>)
  ELSE Let1(Logged(m, <<"pass", k>>), LAMBDA m1 : applyEndInterpFrom(r, m1, k, 0))

\* ChainTwistAdditive.apply(retargeter): a further twist of the first joint of
\* the additive's target chain, by quarter turns about the joint's twist axis.
applyAdditive(r, m, additive) ==
  IF ~HasChain(r.tarRig, additive.chainName) THEN m
  ELSE IF Len(r.tarRig.chains[additive.chainName]) = 0 THEN m
  ELSE LET itm == r.tarRig.chains[additive.chainName][1]
           local_rot == At(m.pose.joints, itm.idx).local.rot
           turn == IF additive.turns = 0 THEN QuatIdentity
                   ELSE QuarterTurn(SignVec(itm.twist))
       IN [m EXCEPT !.pose = setRot(@, RotatedJoint(itm), mul(local_rot, turn)),
                    !.log = Append(@, <<"twist", additive.chainName, itm.idx>>)]

\* for (const i of this.additives) i.apply(this), from additive n on.
RECURSIVE applyAdditives(_, _, _)
applyAdditives(r, m, n) ==
  Let1(m, LAMBDA m1 :
    IF m1.threw \/ n > Len(r.additives) THEN m1
    ELSE applyAdditives(r, applyAdditive(r, Logged(m1, <<"additive", r.additives[n].chainName>>),
                                         r.additives[n]), n + 1))

\* The passes of update after the mixer, in the order of the code.
UpdatePasses ==
  <<<<"translate", "pelvis">>, <<"chain", "pelvis">>, <<"interp", "spine">>,
    <<"chain", "head">>,
    <<"chain", "armL">>, <<"chain", "armR">>, <<"chain", "legL">>, <<"chain", "legR">>,
    <<"chain", "fingersThumbL">>, <<"chain", "fingersThumbR">>,
    <<"chain", "fingersIndexL">>, <<"chain", "fingersIndexR">>,
    <<"chain", "fingersMiddleL">>, <<"chain", "fingersMiddleR">>,
    <<"chain", "fingersRingL">>, <<"chain", "fingersRingR">>,
    <<"chain", "fingersPinkyL">>, <<"chain", "fingersPinkyR">>>>

RunPass(r, m, pass) ==
  CASE pass[1] = "translate" -> applyScaledTranslation(r, m, pass[2])
    [] pass[1] = "chain" -> applyChain(r, m, pass[2])
    [] pass[1] = "interp" -> applyEndInterp(r, m, pass[2])

\* The count >= 1 passes from pass n on, in their order; a TypeError ends the
\* update.  The passes are taken by halves, the first half before the second.
RECURSIVE RunPasses(_, _, _, _)
RunPasses(r, m, n, count) ==
  IF count > 1
  THEN CHOOSE done \in
         {IF m2.threw THEN m2
          ELSE RunPasses(r, m2, n + (count \div 2), count - (count \div 2)) :
            m2 \in {RunPasses(r, m, n, count \div 2)}} : TRUE
  ELSE RunPass(r, m, UpdatePasses[n])

\* A mixer that advanced by the wall clock's reading on top of delta_time.
MixerDeltaWallClock(delta_time) == delta_time + clock * ClockStepTicks

\* The time by which an update of delta_time advances the mixer.
MixerDelta(delta_time) == delta_time

\* this.mixer.update(delta_time): the action's time advanced and the clip's
\* values at that time written to the bones of the source skeleton.
mixerUpdate(r, delta_time) ==
  Let2(r, AdvanceTime(r.time, MixerDelta(delta_time), r.clip.duration), LAMBDA r0, time :
    [r0 EXCEPT !.time = time, !.srcSkel = ApplyClip(@, r0.clip, time)])

\* Retargeter.update(delta_time): the retargeter afterwards, whether the call
\* raised, and the operations it performed.  A raise leaves the passes after
\* it and the write to the skeleton undone.
update(r, delta_time) ==
  CHOOSE done \in
    {CHOOSE out \in
       {IF m2.threw
        THEN [r |-> WritePose(r1, m2.pose), threw |-> TRUE, log |-> m2.log]
        ELSE [r |-> [WritePose(r1, m2.pose) EXCEPT !.tarSkel = toSkeleton(m2.pose, @)],
              threw |-> FALSE, log |-> Append(m2.log, <<"toSkeleton">>)] :
          m2 \in {applyAdditives(r1, RunPasses(r1, [pose |-> r1.pose, threw |-> FALSE,
                                                     log |-> <<<<"mixer", delta_time>>>>],
                                               1, Len(UpdatePasses)), 1)}} : TRUE :
       r1 \in {mixerUpdate(r, delta_time)}} : TRUE

Min(a, b) == IF a < b THEN a ELSE b

-----------------------------------------------------------------------------
(* Double arithmetic of the bake's key times.  The times the bake records   *)
(* are doubles, computed as the code computes them, with the rounding of    *)
(* every operation; the mixer above runs on whole ticks.                    *)

\* Natural numbers of any size: the digits to base 2^14, lowest first, with
\* no zero at the top; they hold the 53-bit significands of doubles.
BigBase == 128 * 128

RECURSIVE Pow2(_)
Pow2(n) == IF n <= 0 THEN 1 ELSE 2 * Pow2(n - 1)

RECURSIVE BigOf(_)
BigOf(n) == IF n = 0 THEN <<>> ELSE <<n % BigBase>> \o BigOf(n \div BigBase)

RECURSIVE BigStrip(_)
BigStrip(a) ==
  IF a = <<>> THEN a
  ELSE IF a[Len(a)] = 0 THEN BigStrip(SubSeq(a, 1, Len(a) - 1))
  ELSE a

RECURSIVE BigToInt(_)
BigToInt(a) == IF a = <<>> THEN 0 ELSE a[1] + BigBase * BigToInt(Tail(a))

RECURSIVE BigMulFrom(_, _, _, _)
BigMulFrom(a, k, i, carry) ==
  IF i > Len(a) THEN BigOf(carry)
  ELSE Let1(a[i] * k + carry, LAMBDA v :
         <<v % BigBase>> \o BigMulFrom(a, k, i + 1, v \div BigBase))

BigMulSmall(a, k) == IF k = 0 THEN <<>> ELSE BigMulFrom(a, k, 1, 0)

\* The quotient and the remainder of a by a small k, from the top digit down.
RECURSIVE BigDivFrom(_, _, _, _, _)
BigDivFrom(a, k, i, r, acc) ==
  IF i = 0 THEN [q |-> BigStrip(acc), r |-> r]
  ELSE Let1(r * BigBase + a[i], LAMBDA v :
         BigDivFrom(a, k, i - 1, v % k, <<v \div k>> \o acc))

BigDivSmall(a, k) == BigDivFrom(a, k, Len(a), 0, <<>>)

BitLenSmall(n) == CHOOSE b \in 0..14 : (b = 0 /\ n = 0) \/ (b > 0 /\ Pow2(b - 1) <= n /\ n < Pow2(b))

BigBitLen(a) == IF a = <<>> THEN 0 ELSE 14 * (Len(a) - 1) + BitLenSmall(a[Len(a)])

\* a * 2^s.
RECURSIVE BigShl(_, _)
BigShl(a, s) ==
  IF a = <<>> \/ s = 0 THEN a
  ELSE IF s >= 14 THEN BigShl(<<0>> \o a, s - 14)
  ELSE BigMulSmall(a, Pow2(s))

\* a \div 2^s, and whether a bit was shifted out.
RECURSIVE BigShr(_, _, _)
BigShr(a, s, sticky) ==
  IF s = 0 \/ a = <<>> THEN [q |-> a, sticky |-> sticky]
  ELSE IF s >= 14 THEN BigShr(Tail(a), s - 14, sticky \/ a[1] # 0)
  ELSE Let1(BigDivSmall(a, Pow2(s)), LAMBDA d : [q |-> d.q, sticky |-> sticky \/ d.r # 0])

RECURSIVE BigInc(_)
BigInc(a) == IF a = <<>> THEN <<1>>
             ELSE IF a[1] + 1 < BigBase THEN <<a[1] + 1>> \o Tail(a)
             ELSE <<0>> \o BigInc(Tail(a))

\* Whether a < b.
RECURSIVE BigLess(_, _)
BigLess(a, b) ==
  IF Len(a) # Len(b) THEN Len(a) < Len(b)
  ELSE IF a = <<>> THEN FALSE
  ELSE IF a[Len(a)] # b[Len(b)] THEN a[Len(a)] < b[Len(b)]
  ELSE BigLess(SubSeq(a, 1, Len(a) - 1), SubSeq(b, 1, Len(b) - 1))

\* A double that is not negative: significand m of 53 bits and exponent e for
\* the value m * 2^e, or zero.
F64Zero == [m |-> <<>>, e |-> 0]

\* The double nearest to (p / q) * 2^e, ties to the even significand: the
\* rounding of every arithmetic operation on doubles.  p is a number of any
\* size and q a small divisor.
F64Round(p, q, e) ==
  IF p = <<>> THEN F64Zero
  ELSE Let1(54 - (BigBitLen(p) - BitLenSmall(q)), LAMBDA s :
    Let1(IF s >= 0 THEN [q |-> BigShl(p, s), sticky |-> FALSE] ELSE BigShr(p, 0 - s, FALSE),
      LAMBDA scaled :
        Let1(BigDivSmall(scaled.q, q), LAMBDA d :
          Let1(BigBitLen(d.q) - 53, LAMBDA t :
            Let1(BigDivSmall(d.q, Pow2(t)), LAMBDA low :
              LET inexact == scaled.sticky \/ d.r # 0
                  half == Pow2(t - 1)
                  up == low.r > half
                        \/ (low.r = half /\ (inexact \/ low.q[1] % 2 = 1))
                  m == IF up THEN BigInc(low.q) ELSE low.q
              IN IF BigBitLen(m) > 53
                 THEN [m |-> BigDivSmall(m, 2).q, e |-> e - s + t + 1]
                 ELSE [m |-> m, e |-> e - s + t])))))

\* n / k for whole numbers n >= 0 and k > 0, and x * k for a double x.
F64Ratio(n, k) == F64Round(BigOf(n), k, 0)
F64MulInt(x, k) == F64Round(BigMulSmall(x.m, k), 1, x.e)

\* x < y, and Math.min(x, y).
F64Less(x, y) ==
  IF y.m = <<>> THEN FALSE
  ELSE IF x.m = <<>> THEN TRUE
  ELSE IF x.e # y.e THEN x.e < y.e
  ELSE BigLess(x.m, y.m)

F64Min(x, y) == IF F64Less(y, x) THEN y ELSE x

\* Math.ceil(x) for a double below 2^28.
F64Ceil(x) ==
  IF x.m = <<>> THEN 0
  ELSE IF x.e >= 0 THEN BigToInt(BigShl(x.m, x.e))
  ELSE Let1(BigShr(x.m, 0 - x.e, FALSE), LAMBDA d :
         BigToInt(d.q) + (IF d.sticky THEN 1 ELSE 0))

\* A duration of whole ticks as the clip holds it: the nearest double, in seconds.
Seconds(ticks) == F64Ratio(ticks, TicksPerSec)

-----------------------------------------------------------------------------
(* Retargeter.bake_animation_to_tracks                                      *)

\* frame_time = 1 / fps as the mixer is advanced by it (in ticks), and
\* frame_count = Math.ceil(duration * fps) + 1.
FrameTime(fps) == TicksPerSec \div fps
FrameCount(duration, fps) == F64Ceil(F64MulInt(Seconds(duration), fps)) + 1

\* The time recorded for a frame of the bake: Math.min(frame * frame_time, duration).
KeyTime(frame, fps, duration) ==
  F64Min(F64MulInt(F64Ratio(1, fps), frame), Seconds(duration))

\* A test for "hips" that kept the case of the name.
HasRootMotionTrackCaseSensitive(bone_name) == Includes(bone_name, "hips")

\* Whether bake_animation_to_tracks adds a position track for a bone.
HasRootMotionTrack(bone_name) == Includes(Trim(ToLowerCase(bone_name)), "hips")

\* A bake that made rotation tracks for the root-motion bones only.
RootMotionBonesOnly(skel) == {n \in 1..Len(skel) : HasRootMotionTrack(skel[n].name)}

\* The bones of the target skeleton the bake makes a rotation track for.
BakedBones(skel) == 1..Len(skel)

\* The sampling loop of bake_animation_to_tracks over count >= 1 frames from
\* frame on, in their order: b = [r, threw, samples, log] holds the retargeter,
\* whether an update raised (which ends the loop), per frame the time and the
\* bones of the target skeleton captured after the update, and the operations
\* of the last update.  The frames are taken by halves, the first half before
\* the second.
RECURSIVE bakeFrames(_, _, _, _)
bakeFrames(b, fps, frame, count) ==
  IF count > 1
  THEN CHOOSE done \in
         {IF half.threw THEN half
          ELSE bakeFrames(half, fps, frame + (count \div 2), count - (count \div 2)) :
            half \in {bakeFrames(b, fps, frame, count \div 2)}} : TRUE
  ELSE CHOOSE done \in
         {IF u.threw
          THEN [r |-> u.r, threw |-> TRUE, samples |-> b.samples, log |-> u.log]
          ELSE [r |-> u.r, threw |-> FALSE, log |-> u.log,
                samples |-> Append(b.samples,
                                   [time |-> KeyTime(frame, fps, u.r.clip.duration),
                                    bones |-> u.r.tarSkel, clock |-> u.r.time])] :
            u \in {update(b.r, FrameTime(fps))}} : TRUE

\* The tracks made from the samples for bones n.. of the target skeleton.
RECURSIVE tracksFrom(_, _, _)
tracksFrom(skel, samples, n) ==
  IF n > Len(skel) THEN <<>>
  ELSE LET times == [f \in 1..Len(samples) |-> samples[f].time]
           quat_track == [name |-> skel[n].name \o ".quaternion", bone |-> n - 1,
                          property |-> "quaternion", times |-> times,
                          values |-> [f \in 1..Len(samples) |-> samples[f].bones[n].rot]]
           pos_track == [name |-> skel[n].name \o ".position", bone |-> n - 1,
                         property |-> "position", times |-> times,
                         values |-> [f \in 1..Len(samples) |-> samples[f].bones[n].pos]]
       IN (IF n \in BakedBones(skel) THEN <<quat_track>> ELSE <<>>)
          \o (IF HasRootMotionTrack(skel[n].name) THEN <<pos_track>> ELSE <<>>)
          \o tracksFrom(skel, samples, n + 1)

\* Retargeter.bake_animation_to_tracks(fps): [r, threw, log, tracks], and
\* the time the mixer's action stood at when each keyframe was captured.
bake_animation_to_tracks(r, fps) ==
  Let2(r, FrameCount(r.clip.duration, fps), LAMBDA r0, frame_count :
    Let1(bakeFrames([r |-> r0, threw |-> FALSE, samples |-> <<>>, log |-> <<>>], fps, 0,
                    frame_count), LAMBDA b :
      [r |-> b.r, threw |-> b.threw, log |-> b.log,
       clocks |-> [f \in 1..Len(b.samples) |-> b.samples[f].clock],
       tracks |-> IF b.threw THEN <<>>
                  ELSE Let2(r0.tarRig.skel, b.samples, LAMBDA skel, samples :
                         tracksFrom(skel, samples, 1))]))

-----------------------------------------------------------------------------
(* Skeletons, clips and correspondence tables the service is run on.       *)
(* The source is a Mesh2Motion human rig reduced to the bones of the       *)
(* pelvis, spine, head, left arm and left leg; the roles of the bones      *)
(* left out get empty chains.                                              *)

TurnX == QuarterTurn(<<1, 0, 0>>)
TurnY == QuarterTurn(<<0, 1, 0>>)
TurnZ == QuarterTurn(<<0, 0, 1>>)

SourceSkeleton ==
  <<Bone("DEF-hips", -1, QuatIdentity, <<0, 100, 0>>),
    Bone("DEF-spine001", 0, QuatIdentity, <<0, 10, 0>>),
    Bone("DEF-spine002", 1, QuatIdentity, <<0, 10, 0>>),
    Bone("DEF-spine003", 2, QuatIdentity, <<0, 10, 0>>),
    Bone("DEF-neck", 3, QuatIdentity, <<0, 10, 0>>),
    Bone("DEF-head", 4, QuatIdentity, <<0, 6, 0>>),
    Bone("DEF-upper_armL", 3, QuatIdentity, <<10, 8, 0>>),
    Bone("DEF-forearmL", 6, QuatIdentity, <<20, 0, 0>>),
    Bone("DEF-handL", 7, QuatIdentity, <<20, 0, 0>>),
    Bone("DEF-thighL", 0, QuatIdentity, <<8, -4, 0>>),
    Bone("DEF-shinL", 9, QuatIdentity, <<0, -40, 0>>),
    Bone("DEF-footL", 10, QuatIdentity, <<0, -40, 0>>)>>

\* A Mixamo-named target of half the size; the shoulder and the head end are
\* bones that no chain of mixamo_config lists.
MixamoSkeleton ==
  <<Bone("mixamorigHips", -1, QuatIdentity, <<0, 50, 0>>),
    Bone("mixamorigSpine", 0, QuatIdentity, <<0, 5, 0>>),
    Bone("mixamorigSpine1", 1, QuatIdentity, <<0, 5, 0>>),
    Bone("mixamorigSpine2", 2, QuatIdentity, <<0, 5, 0>>),
    Bone("mixamorigNeck", 3, QuatIdentity, <<0, 5, 0>>),
    Bone("mixamorigHead", 4, QuatIdentity, <<0, 3, 0>>),
    Bone("mixamorigLeftShoulder", 3, QuatIdentity, <<3, 4, 0>>),
    Bone("mixamorigLeftArm", 6, TurnZ, <<2, 0, 0>>),
    Bone("mixamorigLeftForeArm", 7, QuatIdentity, <<0, 10, 0>>),
    Bone("mixamorigLeftHand", 8, QuatIdentity, <<0, 10, 0>>),
    Bone("mixamorigLeftUpLeg", 0, QuatIdentity, <<4, -2, 0>>),
    Bone("mixamorigLeftLeg", 10, QuatIdentity, <<0, -20, 0>>),
    Bone("mixamorigLeftFoot", 11, QuatIdentity, <<0, -20, 0>>),
    Bone("mixamorigHeadTop_End", 5, QuatIdentity, <<0, 4, 0>>)>>

\* A target with names of its own, twice the size; "Tail", "HIPS_helper" and
\* "hips_tip" are bones that no correspondence table below maps.
CustomSkeleton ==
  <<Bone("Hips", -1, QuatIdentity, <<0, 200, 0>>),
    Bone("Spine", 0, QuatIdentity, <<0, 20, 0>>),
    Bone("Chest", 1, QuatIdentity, <<0, 20, 0>>),
    Bone("UpperChest", 2, QuatIdentity, <<0, 20, 0>>),
    Bone("Neck", 3, QuatIdentity, <<0, 20, 0>>),
    Bone("Head", 4, QuatIdentity, <<0, 12, 0>>),
    Bone("L_Arm", 3, QuatIdentity, <<20, 16, 0>>),
    Bone("L_Elbow", 6, QuatIdentity, <<40, 0, 0>>),
    Bone("L_Hand", 7, QuatIdentity, <<40, 0, 0>>),
    Bone("Tail", 0, TurnX, <<0, 0, -10>>),
    Bone("HIPS_helper", 0, QuatIdentity, <<0, -5, 0>>),
    Bone("hips_tip", 5, QuatIdentity, <<0, 10, 0>>)>>

Track(bone, rot, pos) == [bone |-> bone, rot |-> rot, pos |-> pos]
Clip(name, duration, tracks) == [name |-> name, duration |-> duration, tracks |-> tracks]

\* A clip of 1/15 s in two phases.
WalkClip ==
  Clip("walk", 200,
    <<Track("DEF-hips", <<QuatIdentity, TurnY>>, <<<<0, 100, 0>>, <<0, 104, 2>>>>),
      Track("DEF-upper_armL", <<QuatIdentity, TurnZ>>, <<>>),
      Track("DEF-head", <<TurnY, QuatIdentity>>, <<>>)>>)

\* A clip whose duration (1/12 s) is not a whole number of frames at 30 fps.
WaveClip ==
  Clip("wave", 250,
    <<Track("DEF-hips", <<QuatIdentity>>, <<<<0, 100, 0>>, <<4, 100, 0>>, <<0, 98, 0>>>>),
      Track("DEF-forearmL", <<QuatIdentity, TurnY, TurnZ>>, <<>>),
      Track("DEF-neck", <<QuatIdentity, TurnX>>, <<>>)>>)

\* A clip of exactly one second.
SecondClip ==
  Clip("second", TicksPerSec,
    <<Track("DEF-hips", <<QuatIdentity, TurnY, HalfTurn(<<0, 1, 0>>)>>,
            <<<<0, 100, 0>>, <<0, 110, 0>>, <<2, 100, 0>>>>),
      Track("DEF-thighL", <<QuatIdentity, TurnX>>, <<>>)>>)

\* A clip of 23 frames at 30 fps (23/30 s).
StrideClip ==
  Clip("stride", 23 * FrameTime(30),
    <<Track("DEF-hips", <<QuatIdentity, TurnY>>, <<<<0, 100, 0>>, <<0, 96, 0>>>>)>>)

\* A clip of 1/15 s that bends the spine at its middle joint only: the joint
\* above turns back, so that both ends of the spine keep their directions.
BendClip ==
  Clip("bend", 200,
    <<Track("DEF-spine002", <<QuatIdentity, TurnX>>, <<>>),
      Track("DEF-spine003", <<QuatIdentity, fromInvert(TurnX)>>, <<>>)>>)

\* A clip of duration 0 (a single pose).
PoseClip ==
  Clip("pose", 0, <<Track("DEF-hips", <<TurnY>>, <<<<0, 102, 0>>>>)>>)

\* Correspondence tables: <<target bone name, source bone name>> entries.
FullTable ==
  <<<<"Hips", "DEF-hips">>, <<"Spine", "DEF-spine001">>, <<"Chest", "DEF-spine002">>,
    <<"UpperChest", "DEF-spine003">>, <<"Neck", "DEF-neck">>, <<"Head", "DEF-head">>,
    <<"L_Arm", "DEF-upper_armL">>, <<"L_Elbow", "DEF-forearmL">>, <<"L_Hand", "DEF-handL">>>>

\* Every bone of the source skeleton mapped to the bone of the same name.
SameNamesTable == [n \in 1..Len(SourceSkeleton) |-> <<SourceSkeleton[n].name, SourceSkeleton[n].name>>]

\* Only the pelvis and the spine roles are covered.
TwoRolesTable == SubSeq(FullTable, 1, 4)

\* The pelvis is not mapped.
NoPelvisTable == SubSeq(FullTable, 2, 6)

\* The spine is not mapped.
NoSpineTable == <<FullTable[1], FullTable[5], FullTable[6]>>

\* The head is mapped to a bone the target skeleton does not have.
MissingBoneTable ==
  SubSeq(FullTable, 1, 5) \o <<<<"Skull", "DEF-head">>>>

\* The arm is mapped on the target side only down to the elbow.
ShortArmTable == SubSeq(FullTable, 1, 8)

-----------------------------------------------------------------------------
(* AnimationRetargetService.apply_human_swing_twist_retargeting and the    *)
(* calls made on the Retargeter it constructs.                             *)

\* What the service is given: the skeletons, the clip, the correspondence
\* table and the TargetBoneMappingType.
Request(target_skeleton, target_mapping_type, bone_mappings, clip) ==
  [source_skeleton |-> SourceSkeleton, target_skeleton |-> target_skeleton,
   target_mapping_type |-> target_mapping_type, bone_mappings |-> bone_mappings,
   clip |-> clip]

Requests ==
  {Request(MixamoSkeleton, "Mixamo", FullTable, WalkClip),
   Request(MixamoSkeleton, "Mixamo", FullTable, PoseClip),
   Request(MixamoSkeleton, "None", FullTable, WalkClip),
   Request(CustomSkeleton, "Mixamo", FullTable, WalkClip),
   Request(CustomSkeleton, "Custom", FullTable, WaveClip),
   Request(CustomSkeleton, "Custom", TwoRolesTable, WaveClip),
   Request(CustomSkeleton, "Custom", TwoRolesTable, StrideClip),
   Request(CustomSkeleton, "Custom", TwoRolesTable, SecondClip),
   Request(CustomSkeleton, "Custom", ShortArmTable, WaveClip),
   Request(CustomSkeleton, "Custom", NoPelvisTable, WalkClip),
   Request(CustomSkeleton, "Custom", NoSpineTable, WalkClip),
   Request(CustomSkeleton, "Custom", MissingBoneTable, WalkClip),
   Request(SourceSkeleton, "Custom", SameNamesTable, BendClip)}

NoConfigs == [bone_mapping |-> <<>>, source_config |-> <<>>, target_config |-> <<>>,
              built |-> "none"]

\* A service that derives both configurations from the table whatever the
\* mapping type is.
ConfigsFromTable(target_mapping_type, bone_mappings) ==
  Let1(build_custom_source_config(bone_mappings), LAMBDA custom_source_config :
    [bone_mapping |-> bone_mappings, source_config |-> custom_source_config,
     target_config |-> build_custom_target_config(custom_source_config, bone_mappings),
     built |-> "both"])

\* The chain configurations the service takes for a mapping type.
ConfigsFor(target_mapping_type, bone_mappings) ==
  IF target_mapping_type = "Mixamo"
  THEN [bone_mapping |-> bone_mappings, source_config |-> mesh2motion_config,
        target_config |-> mixamo_config, built |-> "reference"]
  ELSE IF target_mapping_type = "Custom"
  THEN Let1(build_custom_source_config(bone_mappings), LAMBDA custom_source_config :
         [bone_mapping |-> bone_mappings, source_config |-> custom_source_config,
          target_config |-> build_custom_target_config(custom_source_config, bone_mappings),
          built |-> "both"])
  ELSE NoConfigs

\* The two rigs as the service configures them: [source_rig, target_rig, threw].
\* A raise in the source rig's fromConfig leaves the target rig unconfigured.
BuildRigs(req, configs) ==
  Let2(Rig(req.source_skeleton), Rig(req.target_skeleton), LAMBDA source_rig, target_rig :
    IF configs.built = "none"
    THEN [source_rig |-> source_rig, target_rig |-> target_rig, threw |-> FALSE]
    ELSE Let1(fromConfig(source_rig, configs.source_config), LAMBDA s :
           IF s.threw
           THEN [source_rig |-> s.rig, target_rig |-> target_rig, threw |-> TRUE]
           ELSE Let1(fromConfig(target_rig, configs.target_config), LAMBDA t :
                  [source_rig |-> s.rig, target_rig |-> t.rig, threw |-> t.threw])))

\* A Retargeter instance with the outcome of the calls made on it: whether
\* the last call raised, the operations of the last update, the tracks of the
\* last bake, its fps, the calls made before it and the wall-clock time it was
\* made at, the calls so far, and the state of its test loop.
NewInstance(r) ==
  [r |-> r, threw |-> FALSE, log |-> <<>>, tracks |-> <<>>, baked |-> FALSE,
   fps |-> 0, history |-> <<>>, before |-> <<>>, clocks |-> <<>>, playing |-> FALSE,
   started |-> FALSE, last_time |-> 0, baked_at |-> 0]

\* The delta of the service's first update, 0.001 s.
InitDelta == TicksPerSec \div 1000

UpdateDeltas == {InitDelta, FrameTime(30)}
FpsSet == {f \in 1..MaxFps : TicksPerSec % f = 0} \cup {30}
Additives == {[chainName |-> "armL", turns |-> 1]}

Init ==
  /\ svc \in {[req |-> q, phase |-> "idle", source_rig |-> <<>>, target_rig |-> <<>>] :
               q \in Requests}
  /\ rt = <<>>
  /\ clock = 0
  /\ cfg = NoConfigs

\* Lines 176-201 of the service: the rigs, their configuration, the Retargeter.
\* A build that raises leaves the rigs as they were when it raised (in svc); a
\* build that completes hands them to the Retargeter.
BuildRetargeter ==
  /\ svc.phase = "idle"
  /\ \E configs \in {ConfigsFor(svc.req.target_mapping_type, svc.req.bone_mappings)} :
     \E rigs \in {BuildRigs(svc.req, configs)} :
        /\ cfg' = configs
        /\ svc' = IF rigs.threw
                  THEN [svc EXCEPT !.phase = "failed", !.source_rig = rigs.source_rig,
                                   !.target_rig = rigs.target_rig]
                  ELSE [svc EXCEPT !.phase = "built"]
        /\ rt' = IF rigs.threw THEN <<>>
                 ELSE <<NewInstance(Retargeter(rigs.source_rig, rigs.target_rig, svc.req.clip))>>
  /\ UNCHANGED clock

\* retargeter.update(delta_time).
UpdateCall(i, delta_time) ==
  \E u \in {update(rt[i].r, delta_time)} :
     rt' = [rt EXCEPT ![i] = [@ EXCEPT !.r = u.r, !.threw = u.threw, !.log = u.log,
                                       !.history = Append(@, <<"update", delta_time>>)]]

Update ==
  /\ \E i \in DOMAIN rt, delta_time \in UpdateDeltas :
        /\ Len(rt[i].history) < MaxCalls
        /\ UpdateCall(i, delta_time)
  /\ UNCHANGED <<svc, clock, cfg>>

\* retargeter.bake_animation_to_tracks(fps).
BakeCall(i, fps) ==
  \E b \in {bake_animation_to_tracks(rt[i].r, fps)} :
     rt' = [rt EXCEPT ![i] = [@ EXCEPT !.r = b.r, !.threw = b.threw, !.log = b.log,
                                       !.tracks = b.tracks, !.baked = ~b.threw,
                                       !.clocks = b.clocks,
                                       !.fps = fps, !.baked_at = clock,
                                       !.before = rt[i].history,
                                       !.history = Append(@, <<"bake", fps>>)]]

Bake ==
  /\ \E i \in DOMAIN rt, fps \in FpsSet :
        /\ Len(rt[i].history) < MaxCalls
        /\ BakeCall(i, fps)
  /\ UNCHANGED <<svc, clock, cfg>>

\* retargeter.additives.push(additive).
AddAdditive ==
  /\ \E i \in DOMAIN rt, a \in Additives :
        /\ Len(rt[i].history) < MaxCalls
        /\ rt' = [rt EXCEPT ![i] = [@ EXCEPT !.r.additives = Append(@, a),
                                             !.history = Append(@, <<"additive", a.chainName>>)]]
  /\ UNCHANGED <<svc, clock, cfg>>

Next == BuildRetargeter \/ Update \/ Bake \/ AddAdditive

Spec == Init /\ [][Next]_vars

-----------------------------------------------------------------------------
(* Two Retargeters built from equal rigs and the same clip, the wall clock *)
(* and the test loop of start_testing_animation.                           *)

PairRequests == {Request(CustomSkeleton, "Custom", TwoRolesTable, WaveClip)}

PairFps == {30}

InitPair ==
  /\ svc \in {[req |-> q, phase |-> "idle", source_rig |-> <<>>, target_rig |-> <<>>] :
               q \in PairRequests}
  /\ rt = <<>>
  /\ clock = 0
  /\ cfg = NoConfigs

\* Two Retargeters constructed from equal source rig, target rig and clip.
BuildPair ==
  /\ svc.phase = "idle"
  /\ \E configs \in {ConfigsFor(svc.req.target_mapping_type, svc.req.bone_mappings)} :
     \E rigs \in {BuildRigs(svc.req, configs)} :
        /\ ~rigs.threw
        /\ cfg' = configs
        /\ svc' = [svc EXCEPT !.phase = "built"]
        /\ rt' = <<NewInstance(Retargeter(rigs.source_rig, rigs.target_rig, svc.req.clip)),
                   NewInstance(Retargeter(rigs.source_rig, rigs.target_rig, svc.req.clip))>>
  /\ UNCHANGED clock

\* Real time passes.
Tick ==
  /\ clock < MaxClock
  /\ clock' = clock + 1
  /\ UNCHANGED <<svc, rt, cfg>>

\* start_testing_animation(): last_time = performance.now(), the loop is
\* requested.  A Retargeter's loop is started once here.
StartTesting ==
  /\ \E i \in DOMAIN rt :
        /\ ~rt[i].started
        /\ rt' = [rt EXCEPT ![i] = [@ EXCEPT !.playing = TRUE, !.started = TRUE,
                                             !.last_time = clock]]
  /\ UNCHANGED <<svc, clock, cfg>>

\* The requestAnimationFrame callback animate(current_time), at a time stamp
\* later than the one before.
AnimateFrame ==
  /\ \E i \in DOMAIN rt :
        /\ rt[i].playing
        /\ clock > rt[i].last_time
        /\ \E u \in {update(rt[i].r, (clock - rt[i].last_time) * ClockStepTicks)} :
              rt' = [rt EXCEPT ![i] =
                       [@ EXCEPT !.r = u.r, !.threw = u.threw, !.log = u.log,
                                 !.last_time = clock,
                                 !.history = Append(@, <<"update",
                                    (clock - rt[i].last_time) * ClockStepTicks>>)]]
  /\ UNCHANGED <<svc, clock, cfg>>

\* stop_testing_animation().
StopTesting ==
  /\ \E i \in DOMAIN rt :
        /\ rt[i].playing
        /\ rt' = [rt EXCEPT ![i] = [@ EXCEPT !.playing = FALSE]]
  /\ UNCHANGED <<svc, clock, cfg>>

\* bake_animation_to_tracks(fps), once on each of the two, while real time
\* passes.
BakePair ==
  /\ \E i \in DOMAIN rt, fps \in PairFps :
        /\ rt[i].fps = 0
        /\ BakeCall(i, fps)
  /\ clock' \in {clock, Min(clock + 1, MaxClock)}
  /\ UNCHANGED <<svc, cfg>>

NextPair == BuildPair \/ Tick \/ StartTesting \/ AnimateFrame \/ StopTesting \/ BakePair

SpecPair == InitPair /\ [][NextPair]_vars

-----------------------------------------------------------------------------
(* The HumanChainConfig builders on a correspondence table that is built   *)
(* up entry by entry.                                                      *)

TableKeys == {"Hips", "Spine", "Head"}
TableValues == {"DEF-hips", "DEF-hips.001", "DEF-spine001", "DEF-head"}

\* Map.set(key, value): a new key is appended, an old key keeps its place.
MapSet(m, key, value) ==
  IF key \in MapKeys(m)
  THEN [i \in 1..Len(m) |-> IF m[i][1] = key THEN <<key, value>> ELSE m[i]]
  ELSE Append(m, <<key, value>>)

\* The service holds the table; the configuration objects are the two
\* statics and those built for the table as it is now.
InitConfig ==
  /\ svc = [phase |-> "mapping", objects |-> StaticConfigs, source_config |-> 0,
            target_config |-> 0]
  /\ rt = <<>>
  /\ clock = 0
  /\ cfg = NoConfigs

\* bone_mappings.set(target bone name, source bone name).
SetMapping ==
  /\ \E key \in TableKeys, value \in TableValues :
        /\ key \in MapKeys(cfg.bone_mapping) \/ Len(cfg.bone_mapping) < MaxEntries
        /\ cfg' = [NoConfigs EXCEPT !.bone_mapping = MapSet(cfg.bone_mapping, key, value)]
  /\ svc' = [svc EXCEPT !.objects = SubSeq(@, 1, Len(StaticConfigs)),
                        !.source_config = 0, !.target_config = 0]
  /\ UNCHANGED <<rt, clock>>

\* HumanChainConfig.build_custom_source_config(bone_mappings).
BuildSourceConfig ==
  /\ cfg.built = "none"
  /\ \E b \in {build_custom_source_config_in(svc.objects, cfg.bone_mapping)} :
        /\ svc' = [svc EXCEPT !.objects = b.objects, !.source_config = b.ref]
        /\ cfg' = [cfg EXCEPT !.source_config = b.objects[b.ref], !.built = "source"]
  /\ UNCHANGED <<rt, clock>>

\* HumanChainConfig.build_custom_target_config(custom_source_config, bone_mappings).
BuildTargetConfig ==
  /\ cfg.built = "source"
  /\ \E b \in {build_custom_target_config_in(svc.objects, svc.source_config,
                                              cfg.bone_mapping)} :
        /\ svc' = [svc EXCEPT !.objects = b.objects, !.target_config = b.ref]
        /\ cfg' = [cfg EXCEPT !.target_config = b.objects[b.ref], !.built = "both"]
  /\ UNCHANGED <<rt, clock>>

NextConfig == SetMapping \/ BuildSourceConfig \/ BuildTargetConfig

SpecConfig == InitConfig /\ [][NextConfig]_vars

-----------------------------------------------------------------------------
(* The passes of a Retargeter called one at a time.  Both rigs are          *)
(* configured with a single role, the mixer poses the source skeleton, and  *)
(* one pass is run for that role; the same calls are made on a second       *)
(* Retargeter whose target skeleton is twice as tall.  The rotations are    *)
(* exact for quarter turns only, so the passes are run for the roles whose  *)
(* reference axes are coordinate axes, on target chains of one or two       *)
(* joints.                                                                  *)

\* The same skeleton at twice the size.
TwiceAsTall(skel) == [n \in 1..Len(skel) |-> [skel[n] EXCEPT !.pos = vscale(@, 2)]]

\* A HumanChainConfig of one role.
OneRole(k, names) == [x \in {k} |-> names]

\* The joint names given to the role: <<source names, target names>>.
ChainPairs ==
  {<<<<"DEF-hips">>, <<"Hips">>>>,
   <<<<"DEF-hips">>, <<"Tail">>>>,
   <<<<"DEF-spine001", "DEF-spine002", "DEF-spine003">>, <<"Spine">>>>,
   <<<<"DEF-spine001", "DEF-spine003">>, <<"Spine", "Chest">>>>,
   <<<<"DEF-upper_armL", "DEF-forearmL">>, <<"L_Arm", "L_Elbow">>>>,
   <<<<"DEF-thighL">>, <<"L_Arm", "Skull">>>>}

\* The roles whose reference axes are coordinate axes.
AxisRoles == RoleSet \ {"fingersThumbL", "fingersThumbR"}

\* What a clip makes of one source bone: a rotation, and for a position track
\* a displacement from the bone's bind position (<<>> : no position track).
SourceRotations ==
  {QuatIdentity, TurnX, TurnY, TurnZ, HalfTurn(<<1, 0, 0>>), HalfTurn(<<0, 0, 1>>)}
SourceMoves == {<<>>, <<110, 0, -220>>}

\* The passes of update.
PassKinds == {"translate", "chain", "interp"}

InitChain ==
  /\ svc = [phase |-> "rigs", k |-> "", pass |-> ""]
  /\ rt = <<>>
  /\ clock = 0
  /\ cfg = NoConfigs

\* new Rig(skeleton).fromConfig(config) for both rigs and new Retargeter(...),
\* with a target skeleton and with the same skeleton twice as tall.
ConfigureRigs ==
  /\ svc.phase = "rigs"
  /\ \E k \in RoleSet, names \in ChainPairs :
       \E src \in {fromConfig(Rig(SourceSkeleton), OneRole(k, names[1]))} :
       \E tar \in {fromConfig(Rig(CustomSkeleton), OneRole(k, names[2]))} :
       \E tall \in {fromConfig(Rig(TwiceAsTall(CustomSkeleton)), OneRole(k, names[2]))} :
          /\ ~src.threw /\ ~tar.threw /\ ~tall.threw
          /\ svc' = [phase |-> "built", k |-> k, pass |-> ""]
          /\ rt' = <<NewInstance(Retargeter(src.rig, tar.rig, PoseClip)),
                     NewInstance(Retargeter(src.rig, tall.rig, PoseClip))>>
          /\ cfg' = [NoConfigs EXCEPT !.source_config = OneRole(k, names[1]),
                                      !.target_config = OneRole(k, names[2]),
                                      !.built = "both"]
  /\ UNCHANGED clock

\* The mixer writes the value of a one-track clip to a bone of the source
\* chain, in both Retargeters.
PoseSource ==
  /\ svc.phase = "built"
  /\ svc.k \in AxisRoles
  /\ \E n \in 1..Len(cfg.source_config[svc.k]), rot \in SourceRotations,
        move \in SourceMoves :
       \E name \in {cfg.source_config[svc.k][n]} :
       \E pos \in {IF move = <<>> THEN <<>>
                   ELSE <<fromAdd(getJoint(rt[1].r.srcRig.tpose, name).local.pos, move)>>} :
       \E clip \in {Clip("posed", 0, <<Track(name, <<rot>>, pos)>>)} :
          rt' = [i \in DOMAIN rt |->
                   [rt[i] EXCEPT !.r.clip = clip,
                                 !.r.srcSkel = ApplyClip(@, clip, 0)]]
  /\ svc' = [svc EXCEPT !.phase = "posed"]
  /\ UNCHANGED <<clock, cfg>>

\* One of applyScaledTranslation(k), applyChain(k), applyEndInterp(k), on both
\* Retargeters; the translation is the pelvis role's.
ApplyPass ==
  /\ svc.phase = "posed"
  /\ \E kind \in PassKinds :
        /\ kind = "translate" => svc.k = "pelvis"
        /\ svc' = [svc EXCEPT !.phase = "applied", !.pass = kind]
        /\ rt' = [i \in DOMAIN rt |->
                    Let1(RunPass(rt[i].r, [pose |-> rt[i].r.pose, threw |-> FALSE,
                                           log |-> <<>>], <<kind, svc.k>>),
                      LAMBDA m :
                        [rt[i] EXCEPT !.r.pose = m.pose, !.threw = m.threw,
                                      !.log = m.log,
                                      !.history = Append(@, <<kind, svc.k>>)])]
  /\ UNCHANGED <<clock, cfg>>

NextChain == ConfigureRigs \/ PoseSource \/ ApplyPass

SpecChain == InitChain /\ [][NextChain]_vars

-----------------------------------------------------------------------------
(* AnimationRetargetService.retarget_animation_clip on clip objects, and   *)
(* AnimationUtility.clean_track_data.                                      *)
(* Clips and arrays are objects with an identity: the heap is the sequence *)
(* of the clips and the sequence of the arrays made so far, and an object  *)
(* is referred to by its position.  A track holds its name and the         *)
(* references of its times array and its values array.                     *)

KeyframeTrack(name, times, values) == [name |-> name, times |-> times, values |-> values]
AnimationClip(name, duration, tracks) == [name |-> name, duration |-> duration, tracks |-> tracks]

\* A call that handed the array on in place of a copy of it.
SameArray(arrays, ref) == [arrays |-> arrays, ref |-> ref]

\* TypedArray.prototype.slice(): a new array of the same contents.
slice(arrays, ref) == [arrays |-> Append(arrays, arrays[ref]), ref |-> Len(arrays) + 1]

\* A track made from plain number arrays: the KeyframeTrack constructor
\* converts each of them to a new typed array.
TrackFromData(h, name, times, values) ==
  [tracks |-> Append(h.tracks, KeyframeTrack(name, Len(h.arrays) + 1, Len(h.arrays) + 2)),
   arrays |-> h.arrays \o <<times, values>>]

\* String.prototype.indexOf(part, from): the first position from "from" on
\* (counted from 1) that part occurs at, or 0.
IndexOf(s, part, from) ==
  Let3(s, part, from, LAMBDA str, p, f :
    LET at(i) == SubSeq(str, i, i + Len(p) - 1) = p
        places == {i \in f..(Len(str) - Len(p) + 1) : at(i)}
    IN IF places = {} THEN 0 ELSE CHOOSE i \in places : \A j \in places : i <= j)

NoTrackNameParts == <<>>

\* The match of /\.bones\[([^\]]+)\]\.(.+)$/ that starts at or after "from".
RECURSIVE BonesMatch(_, _)
BonesMatch(track_name, from) ==
  Let2(IndexOf(track_name, ".bones[", from), Len(track_name), LAMBDA p, len :
    IF p = 0 THEN NoTrackNameParts
    ELSE Let1(IndexOf(track_name, "]", p + 7), LAMBDA q :
           IF q > p + 7 /\ q + 2 <= len /\ SubSeq(track_name, q + 1, q + 1) = "."
           THEN <<SubSeq(track_name, p + 7, q - 1), SubSeq(track_name, q + 2, len)>>
           ELSE BonesMatch(track_name, p + 1)))

\* parse_track_name_for_metadata: <<bone_name, property>>, or null.  The first
\* pattern, /^([^.]+)\.(.+)$/, splits the name at its first dot.
parse_track_name_for_metadata(track_name) ==
  Let2(IndexOf(track_name, ".", 1), Len(track_name), LAMBDA d, len :
    IF d > 1 /\ d < len
    THEN <<SubSeq(track_name, 1, d - 1), SubSeq(track_name, d + 1, len)>>
    ELSE BonesMatch(track_name, 1))

\* reverse_bone_mapping(bone_mappings).get(source_bone_name): the target bone
\* names mapped to the source bone, in the order of the table; none is the
\* code's undefined.
RECURSIVE reverse_bone_mapping(_, _)
reverse_bone_mapping(bone_mappings, source_bone_name) ==
  IF Len(bone_mappings) = 0 THEN <<>>
  ELSE (IF bone_mappings[1][2] = source_bone_name THEN <<bone_mappings[1][1]>> ELSE <<>>)
       \o reverse_bone_mapping(SubSeq(bone_mappings, 2, Len(bone_mappings)), source_bone_name)

create_track_name(bone_name, property) == bone_name \o "." \o property

\* The tracks made from one source track for the target bones n.. of names.
RECURSIVE TracksForTargets(_, _, _, _, _)
TracksForTargets(h, track, property, names, n) ==
  IF n > Len(names) THEN h
  ELSE IF property \in {"quaternion", "position", "scale"}
  THEN CHOOSE done \in
         {TracksForTargets(g, track, property, names, n + 1) :
            g \in {Let1(slice(h.arrays, track.times), LAMBDA t :
                     Let1(slice(t.arrays, track.values), LAMBDA v :
                       [tracks |-> Append(h.tracks,
                                     KeyframeTrack(create_track_name(names[n], property),
                                                   t.ref, v.ref)),
                        arrays |-> v.arrays]))}} : TRUE
  ELSE TracksForTargets(h, track, property, names, n + 1)

\* Lines 131-160: the loop over the count source tracks n.. , taken by
\* halves, the first half before the second; h = [tracks, arrays] holds
\* new_tracks and the arrays of the heap.
RECURSIVE RenameTracks(_, _, _, _, _)
RenameTracks(h, tracks, bone_mappings, n, count) ==
  IF count = 0 THEN h
  ELSE IF count > 1
  THEN CHOOSE done \in
         {RenameTracks(half, tracks, bone_mappings, n + (count \div 2),
                       count - (count \div 2)) :
            half \in {RenameTracks(h, tracks, bone_mappings, n, count \div 2)}} : TRUE
  ELSE Let1(parse_track_name_for_metadata(tracks[n].name), LAMBDA track_parts :
         IF track_parts = NoTrackNameParts THEN h
         ELSE TracksForTargets(h, tracks[n], track_parts[2],
                               reverse_bone_mapping(bone_mappings, track_parts[1]), 1))

\* The tracks of a clip as objects: a rotation track for every bone and a
\* position track for a bone that has positions; the keys are spread evenly
\* over the duration.
KeyTimes(n, duration) == [j \in 1..n |-> ((j - 1) * duration) \div n]

RECURSIVE ImportTracks(_, _, _)
ImportTracks(h, clip, n) ==
  IF n > Len(clip.tracks) THEN h
  ELSE CHOOSE done \in
         {ImportTracks(g, clip, n + 1) :
            g \in {Let1(clip.tracks[n], LAMBDA tr :
                     Let1(TrackFromData(h, tr.bone \o ".quaternion",
                                        KeyTimes(Len(tr.rot), clip.duration), tr.rot),
                       LAMBDA q :
                         IF Len(tr.pos) = 0 THEN q
                         ELSE TrackFromData(q, tr.bone \o ".position",
                                            KeyTimes(Len(tr.pos), clip.duration),
                                            tr.pos)))}} : TRUE

\* Tracks besides those: the position of a bone that is not the root, kept
\* at the bone's place, and a scale of 1.
OtherTracks(h) ==
  TrackFromData(TrackFromData(h, "DEF-upper_armL.position", <<0>>, <<<<10, 8, 0>>>>),
                "DEF-handL.scale", <<0>>, <<<<1, 1, 1>>>>)

\* The heap that holds one imported clip: [clips, arrays].
Imported(clip, others) ==
  Let1(ImportTracks([tracks |-> <<>>, arrays |-> <<>>], clip, 1), LAMBDA h :
    Let1(IF others THEN OtherTracks(h) ELSE h, LAMBDA g :
      [clips |-> <<AnimationClip(clip.name, clip.duration, g.tracks)>>,
       arrays |-> g.arrays]))

\* The clips the service is given, each with and without the other tracks.
SourceClips == {WalkClip, PoseClip}
ImportedClips == {Imported(c, o) : c \in SourceClips, o \in BOOLEAN}

EndsWith(s, part) ==
  Len(s) >= Len(part) /\ SubSeq(s, Len(s) - Len(part) + 1, Len(s)) = part
WithoutEnd(s, part) == SubSeq(s, 1, Len(s) - Len(part))

\* The clip as the mixer plays it on the source skeleton: a track
\* "<bone>.quaternion" drives the bone's rotation and "<bone>.position" its
\* position.  (In the clips above a bone with a position track has a rotation
\* track, and the scale tracks hold 1.)
MixerClip(clip, arrays) ==
  LET quats == SelectSeq(clip.tracks, LAMBDA tr : EndsWith(tr.name, ".quaternion"))
      bone(n) == WithoutEnd(quats[n].name, ".quaternion")
      pos(n) == SelectSeq(clip.tracks, LAMBDA tr : tr.name = bone(n) \o ".position")
  IN Clip(clip.name, clip.duration,
          [n \in 1..Len(quats) |->
             Track(bone(n), arrays[quats[n].values],
                   IF Len(pos(n)) = 0 THEN <<>> ELSE arrays[pos(n)[1].values])])

\* create_skeleton_from_source: the bones under the armature of the group, or
\* null (the empty sequence) for a group without an armature or a bone.
create_skeleton_from_source(group) == group

\* The count tracks n.. that a bake returned, as objects on the heap; they
\* are taken by halves, the first half before the second.
RECURSIVE BakedTracks(_, _, _, _)
BakedTracks(h, tracks, n, count) ==
  IF count = 0 THEN h
  ELSE IF count > 1
  THEN CHOOSE done \in
         {BakedTracks(half, tracks, n + (count \div 2), count - (count \div 2)) :
            half \in {BakedTracks(h, tracks, n, count \div 2)}} : TRUE
  ELSE TrackFromData(h, tracks[n].name, tracks[n].times, tracks[n].values)

\* The outcome of a call: the heap afterwards, the clip returned (0 for
\* none) and whether the call raised.
Returned(clips, arrays, id) ==
  [clips |-> clips, arrays |-> arrays, returned |-> id, raised |-> FALSE,
   configs |-> NoConfigs]
Raised(s) ==
  [clips |-> s.clips, arrays |-> s.arrays, returned |-> 0, raised |-> TRUE,
   configs |-> NoConfigs]
\* The outcome of a call that configured its rigs from configs.
ConfiguredBy(configs, outcome) == [outcome EXCEPT !.configs = configs]
ReturnedNew(s, name, duration, h) ==
  Returned(Append(s.clips, AnimationClip(name, duration, h.tracks)), h.arrays,
           Len(s.clips) + 1)

\* apply_human_swing_twist_retargeting(source_clip, target_mapping_type) on
\* the service s; source_clip is the reference of the clip.
apply_human_swing_twist_retargeting(s, source_clip, target_mapping_type) ==
  Let1(create_skeleton_from_source(s.source_armature), LAMBDA source_skeleton :
    IF Len(source_skeleton) = 0 THEN Returned(s.clips, s.arrays, source_clip)
    ELSE IF Len(s.target_skinned_meshes) = 0 THEN Raised(s)
    ELSE
      Let1(ConfigsFor(target_mapping_type, s.bone_mappings), LAMBDA configs :
        ConfiguredBy(configs,
          Let1(BuildRigs([source_skeleton |-> source_skeleton,
                          target_skeleton |-> s.target_skinned_meshes[1]], configs),
            LAMBDA rigs :
              IF rigs.threw THEN Raised(s)
              ELSE
                Let1(update(Retargeter(rigs.source_rig, rigs.target_rig,
                                       MixerClip(s.clips[source_clip], s.arrays)),
                            InitDelta),
                  LAMBDA u :
                    IF u.threw THEN Raised(s)
                    ELSE
                      Let1(bake_animation_to_tracks(u.r, 30), LAMBDA retargeted_tracks :
                        IF retargeted_tracks.threw THEN Raised(s)
                        ELSE ReturnedNew(s, s.clips[source_clip].name \o "_retargeted",
                                         s.clips[source_clip].duration,
                                         BakedTracks([tracks |-> <<>>, arrays |-> s.arrays],
                                                     retargeted_tracks.tracks, 1,
                                                     Len(retargeted_tracks.tracks)))))))))

\* retarget_animation_clip(source_clip) on the service s.
retarget_animation_clip(s, source_clip) ==
  IF Len(s.bone_mappings) = 0 THEN Returned(s.clips, s.arrays, source_clip)
  ELSE IF s.skeleton_type = "Human"
  THEN apply_human_swing_twist_retargeting(s, source_clip, s.target_mapping_type)
  ELSE ReturnedNew(s, s.clips[source_clip].name, s.clips[source_clip].duration,
                   RenameTracks([tracks |-> <<>>, arrays |-> s.arrays],
                                s.clips[source_clip].tracks, s.bone_mappings, 1,
                                Len(s.clips[source_clip].tracks)))

\* clean_track_data: the tracks it keeps of a clip.
clean_track_data(tracks, preserve_root_position) ==
  IF preserve_root_position
  THEN SelectSeq(tracks, LAMBDA x : Includes(x.name, "quaternion")
                                      \/ Includes(ToLowerCase(x.name), "hips.position"))
  ELSE SelectSeq(tracks, LAMBDA x : Includes(x.name, "quaternion")
                                      \/ Includes(x.name, "hips.position"))

MaxClips == 2   \* clip objects on the heap: the source clip and the clips built

BoneMappingTables == {<<>>, TwoRolesTable, FullTable \o <<<<"Tail", "DEF-hips">>>>}
SkeletonTypes == {"Human", "Quadraped", "None"}
SourceArmatures == {<<>>, SourceSkeleton}
TargetArmatures == {<<>>, <<MixamoSkeleton>>, <<CustomSkeleton>>}
TargetBoneMappingTypes == {"Mixamo", "Custom", "None"}

\* The service as constructed (lines 31-37), with one imported clip.
InitService ==
  /\ \E h \in ImportedClips :
       svc = [source_armature |-> <<>>, skeleton_type |-> "None",
              target_skinned_meshes |-> <<>>, target_mapping_type |-> "Custom",
              bone_mappings |-> <<>>, clips |-> h.clips, arrays |-> h.arrays,
              source_clip |-> 1, returned |-> 0, raised |-> FALSE,
              last |-> "new", animation_clips |-> <<>>, preserve_root_position |-> FALSE,
              before |-> h]
  /\ rt = <<>>
  /\ clock = 0
  /\ cfg = NoConfigs

\* The service is set up before its first call.
SettingUp == svc.last \in {"new", "set", "clean"} /\ svc.returned = 0 /\ ~svc.raised

set_bone_mappings ==
  /\ SettingUp
  /\ \E mappings \in BoneMappingTables :
       svc' = [svc EXCEPT !.bone_mappings = mappings, !.last = "set"]
  /\ UNCHANGED <<rt, clock, cfg>>

set_source_armature ==
  /\ SettingUp
  /\ \E armature \in SourceArmatures :
       svc' = [svc EXCEPT !.source_armature = armature, !.last = "set"]
  /\ UNCHANGED <<rt, clock, cfg>>

\* The skinned meshes are those of the new armature.
set_target_armature ==
  /\ SettingUp
  /\ \E new_armature \in TargetArmatures :
       svc' = [svc EXCEPT !.target_skinned_meshes = new_armature, !.last = "set"]
  /\ UNCHANGED <<rt, clock, cfg>>

set_skeleton_type ==
  /\ SettingUp
  /\ \E type \in SkeletonTypes :
       svc' = [svc EXCEPT !.skeleton_type = type, !.last = "set"]
  /\ UNCHANGED <<rt, clock, cfg>>

set_target_mapping_type ==
  /\ SettingUp
  /\ \E type \in TargetBoneMappingTypes :
       svc' = [svc EXCEPT !.target_mapping_type = type, !.last = "set"]
  /\ UNCHANGED <<rt, clock, cfg>>

\* retarget_animation_clip(source_clip); "before" keeps the heap of the
\* moment of the call, cfg the configurations the call gave its rigs.
RetargetAnimationClip ==
  /\ Len(svc.clips) < MaxClips
  /\ ~svc.raised
  /\ \E out \in {retarget_animation_clip(svc, svc.source_clip)} :
       /\ svc' = [svc EXCEPT !.clips = out.clips, !.arrays = out.arrays,
                             !.returned = out.returned, !.raised = out.raised,
                             !.last = "retarget",
                             !.before = [clips |-> svc.clips, arrays |-> svc.arrays]]
       /\ cfg' = out.configs
  /\ UNCHANGED <<rt, clock>>

\* AnimationUtility.clean_track_data(animation_clips, preserve_root_position)
\* on the source clip alone or on every clip there is.
CleanTrackData ==
  /\ svc.last # "clean"
  /\ \E animation_clips \in {<<svc.source_clip>>, [i \in 1..Len(svc.clips) |-> i]},
        preserve_root_position \in BOOLEAN :
       svc' = [svc EXCEPT
                 !.clips = [i \in 1..Len(svc.clips) |->
                              IF \E j \in 1..Len(animation_clips) : animation_clips[j] = i
                              THEN [svc.clips[i] EXCEPT
                                      !.tracks = clean_track_data(@, preserve_root_position)]
                              ELSE svc.clips[i]],
                 !.last = "clean", !.animation_clips = animation_clips,
                 !.preserve_root_position = preserve_root_position,
                 !.before = [clips |-> svc.clips, arrays |-> svc.arrays]]
  /\ UNCHANGED <<rt, clock, cfg>>

NextService ==
  \/ set_bone_mappings \/ set_source_armature \/ set_target_armature
  \/ set_skeleton_type \/ set_target_mapping_type
  \/ RetargetAnimationClip \/ CleanTrackData

SpecService == InitService /\ [][NextService]_vars

-----------------------------------------------------------------------------
(* Properties.                                                              *)

\* The joints (indices) that some chain of a rig lists.
ChainJoints(rig) ==
  UNION {{rig.chains[k][n].idx : n \in 1..Len(rig.chains[k])} : k \in DOMAIN rig.chains}

\* A role for which the source rig or the target rig has no chain, or a
\* chain of zero joints.
RoleUnavailable(r, k) ==
  \/ ~HasChain(r.srcRig, k)
  \/ ~HasChain(r.tarRig, k)
  \/ Len(r.srcRig.chains[k]) = 0
  \/ Len(r.tarRig.chains[k]) = 0

\* The working-pose entries of the joints of the target chain of role k are
\* those of the bind pose.
RoleAtBindPose(r, k) ==
  HasChain(r.tarRig, k) =>
    \A n \in 1..Len(r.tarRig.chains[k]) :
       At(r.pose.joints, r.tarRig.chains[k][n].idx).local
         = At(r.tarRig.tpose.joints, r.tarRig.chains[k][n].idx).local

\* The last call on instance i was an update or a bake, so that the log is
\* the log of an update with the additives registered now.
LastCallRan(i) ==
  /\ Len(rt[i].history) > 0
  /\ rt[i].history[Len(rt[i].history)][1] # "additive"

\* C1: for every role update processes, if the source or the target rig has
\* no chain for it or the chain has zero joints, the pass is skipped without
\* throwing (no TypeError is raised in a pass of that role, so the remaining
\* passes run) and the working-pose entries of the role stay unchanged.
C1_MissingChainPassSkipped ==
  \A i \in DOMAIN rt :
     /\ \A n \in 1..Len(rt[i].log) :
           rt[i].log[n][1] = "TypeError" => ~RoleUnavailable(rt[i].r, rt[i].log[n][3])
     /\ \A k \in RoleSet :
           (RoleUnavailable(rt[i].r, k) /\ rt[i].r.additives = <<>>)
             => RoleAtBindPose(rt[i].r, k)

\* Neither rig of the Retargeter has a configured chain.
ZeroChains(r) == DOMAIN r.srcRig.chains = {} /\ DOMAIN r.tarRig.chains = {}

\* The bind-pose local value a track's property has for its joint.
BindValue(r, track) ==
  IF track.property = "quaternion"
  THEN At(r.tarRig.tpose.joints, track.bone).local.rot
  ELSE At(r.tarRig.tpose.joints, track.bone).local.pos

\* C2: on a Retargeter whose rigs have zero configured chains, update and
\* bake_animation_to_tracks complete without throwing, and every baked
\* keyframe of every target joint equals the joint's bind-pose local value.
C2_ZeroChainsBindPose ==
  \A i \in DOMAIN rt :
     ZeroChains(rt[i].r) =>
       /\ ~rt[i].threw
       /\ \A t \in 1..Len(rt[i].tracks) : \A f \in 1..Len(rt[i].tracks[t].values) :
             rt[i].tracks[t].values[f] = BindValue(rt[i].r, rt[i].tracks[t])

\* The indices of the configured names that are joints of the bind pose, in
\* configured order.
ResolvedJoints(tpose, names) ==
  LET kept == SelectSeq(names, LAMBDA nm : HasJoint(tpose, nm))
  IN [n \in 1..Len(kept) |-> getJoint(tpose, kept[n]).index]

\* Every role of the configuration with names has a chain in the rig, made of
\* the names that resolve, in configured order.
ChainsFollow(rig, config) ==
  \A k \in DOMAIN config :
     Len(config[k]) > 0 =>
       /\ HasChain(rig, k)
       /\ [n \in 1..Len(rig.chains[k]) |-> rig.chains[k][n].idx]
            = ResolvedJoints(rig.tpose, config[k])

\* C3: building a Rig from a configuration never fails because of joint
\* names: names that are not joints of the bind pose are skipped, the rest
\* form the role's chain in configured order and construction completes,
\* also when none of the pelvis role's names resolve.
C3_RigBuildCompletes ==
  /\ svc.phase # "failed"
  /\ \A i \in DOMAIN rt :
        cfg.built # "none" =>
          /\ ChainsFollow(rt[i].r.srcRig, cfg.source_config)
          /\ ChainsFollow(rt[i].r.tarRig, cfg.target_config)

\* C4: bake_animation_to_tracks(fps) gives every track ceil(d * fps) + 1
\* keyframes with the times min(k / fps, d) for k = 0 .. ceil(d * fps), the
\* last time being d exactly (d the clip's duration).
C4_BakeKeyframeTimes ==
  \A i \in DOMAIN rt :
     rt[i].baked =>
       LET d == Seconds(rt[i].r.clip.duration)
           last == F64Ceil(F64MulInt(d, rt[i].fps))
       IN \A t \in 1..Len(rt[i].tracks) :
             /\ Len(rt[i].tracks[t].times) = last + 1
             /\ Len(rt[i].tracks[t].values) = last + 1
             /\ \A k \in 0..last :
                   rt[i].tracks[t].times[k + 1] = F64Min(F64Ratio(k, rt[i].fps), d)
             /\ rt[i].tracks[t].times[last + 1] = d

HasTrackNamed(tracks, name) == \E t \in 1..Len(tracks) : tracks[t].name = name

\* C6: in the baked output a target joint has a position track if and only
\* if its name, lower-cased and trimmed, contains "hips", and every joint has
\* a rotation track whatever its name.
C6_PositionTrackIffHips ==
  \A i \in DOMAIN rt :
     rt[i].baked =>
       \A b \in Indexes(rt[i].r.tarRig.skel) :
          LET name == At(rt[i].r.tarRig.skel, b).name IN
          /\ HasTrackNamed(rt[i].tracks, name \o ".position")
               <=> Includes(Trim(ToLowerCase(name)), "hips")
          /\ HasTrackNamed(rt[i].tracks, name \o ".quaternion")

\* A bake of a skeleton with the joints Hips, HIPS_helper, hips_tip and Spine.
C6_HipsNamesBaked ==
  \E i \in DOMAIN rt :
     /\ rt[i].baked
     /\ \A name \in {"Hips", "HIPS_helper", "hips_tip"} :
           /\ HasTrackNamed(rt[i].tracks, name \o ".position")
           /\ HasTrackNamed(rt[i].tracks, name \o ".quaternion")
     /\ HasTrackNamed(rt[i].tracks, "Spine.quaternion")
     /\ ~HasTrackNamed(rt[i].tracks, "Spine.position")

\* The first joint of the target pelvis chain.
IsPelvisRoot(r, b) ==
  /\ HasChain(r.tarRig, "pelvis")
  /\ Len(r.tarRig.chains["pelvis"]) > 0
  /\ r.tarRig.chains["pelvis"][1].idx = b

\* C7: whatever updates and bakes were called, the working pose differs from
\* the target bind pose only in the local rotation of joints listed in a
\* target chain and in the local position of the first joint of the target
\* pelvis chain; joints outside all chains are at bind pose in every frame.
C7_OnlyChainJointsChange ==
  \A i \in DOMAIN rt :
     /\ \A b \in Indexes(rt[i].r.pose.joints) :
           /\ b \notin ChainJoints(rt[i].r.tarRig)
                => At(rt[i].r.pose.joints, b).local.rot
                     = At(rt[i].r.tarRig.tpose.joints, b).local.rot
           /\ ~IsPelvisRoot(rt[i].r, b)
                => At(rt[i].r.pose.joints, b).local.pos
                     = At(rt[i].r.tarRig.tpose.joints, b).local.pos
     /\ \A t \in 1..Len(rt[i].tracks) :
           rt[i].tracks[t].bone \notin ChainJoints(rt[i].r.tarRig)
             => \A f \in 1..Len(rt[i].tracks[t].values) :
                   rt[i].tracks[t].values[f] = BindValue(rt[i].r, rt[i].tracks[t])

\* After an update and a bake, a chain joint is rotated away from the bind
\* pose, the pelvis root is moved, and a joint outside all chains exists.
C7_ChainJointsMoved ==
  \E i \in DOMAIN rt :
     /\ rt[i].baked
     /\ Len(rt[i].history) >= 2
     /\ \E b \in ChainJoints(rt[i].r.tarRig) :
           At(rt[i].r.pose.joints, b).local.rot
             # At(rt[i].r.tarRig.tpose.joints, b).local.rot
     /\ \E b \in ChainJoints(rt[i].r.tarRig) :
           /\ IsPelvisRoot(rt[i].r, b)
           /\ At(rt[i].r.pose.joints, b).local.pos
                # At(rt[i].r.tarRig.tpose.joints, b).local.pos
     /\ Indexes(rt[i].r.pose.joints) \ ChainJoints(rt[i].r.tarRig) # {}

\* The order of the rotation passes.
PassOrder ==
  <<"pelvis", "spine", "head", "armL", "armR", "legL", "legR",
    "fingersThumbL", "fingersThumbR", "fingersIndexL", "fingersIndexR",
    "fingersMiddleL", "fingersMiddleR", "fingersRingL", "fingersRingR",
    "fingersPinkyL", "fingersPinkyR">>

\* The steps of an update of a Retargeter, as they should follow each other.
StepsInOrder(r) ==
  <<<<"mixer">>, <<"translate", "pelvis">>>>
    \o [n \in 1..Len(PassOrder) |-> <<"pass", PassOrder[n]>>]
    \o [n \in 1..Len(r.additives) |-> <<"additive", r.additives[n].chainName>>]
    \o <<<<"toSkeleton">>>>

\* The steps a log records, without the single joints written.
StepsOf(log) ==
  LET steps == SelectSeq(log, LAMBDA e : e[1] \notin {"rot", "twist"})
  IN [n \in 1..Len(steps) |->
        IF steps[n][1] \in {"mixer", "toSkeleton"} THEN <<steps[n][1]>>
        ELSE <<steps[n][1], steps[n][2]>>]

\* C8: every update performs, in this order and once each: the advance of
\* the source playback, the scaled translation of the pelvis root, the
\* rotation passes in their fixed order with each chain from its first joint
\* to its last, every registered additive in registration order, and then
\* the write of the working pose to the target skeleton.
C8_UpdateStepsInOrder ==
  \A i \in DOMAIN rt :
     LastCallRan(i) =>
       /\ StepsOf(rt[i].log) = StepsInOrder(rt[i].r)
       /\ \A n \in 1..Len(rt[i].log) :
             rt[i].log[n][1] = "rot" =>
               \E m \in 1..(n - 1) :
                  /\ rt[i].log[m][1] = "pass"
                  /\ rt[i].log[m][2] = rt[i].log[n][2]
                  /\ rt[i].log[n][3] = rt[i].r.tarRig.chains[rt[i].log[n][2]][n - m].idx

C10_SlotKeptIffExactValue ==
  cfg.built \in {"source", "both"} =>
    /\ DOMAIN cfg.source_config = DOMAIN mesh2motion_config
    /\ \A k \in DOMAIN mesh2motion_config :
          /\ Len(cfg.source_config[k]) = Len(mesh2motion_config[k])
          /\ \A n \in 1..Len(mesh2motion_config[k]) :
                cfg.source_config[k][n] =
                  IF mesh2motion_config[k][n] \in MapValues(cfg.bone_mapping)
                  THEN mesh2motion_config[k][n]
                  ELSE ""

\* The keys of the table that map to the source name s.
KeysOf(table, s) == {table[i][1] : i \in {j \in 1..Len(table) : table[j][2] = s}}

\* C11: build_custom_target_config(source_config, table) has the roles and
\* the chain lengths of source_config; an empty slot stays empty, and a slot
\* holding the source name s holds a key of the table that maps to s, or the
\* empty string when the table has no such key; no exception is raised.
C11_TargetSlotIsReverseLookup ==
  cfg.built = "both" =>
    /\ DOMAIN cfg.target_config = DOMAIN cfg.source_config
    /\ \A k \in DOMAIN cfg.source_config :
          /\ Len(cfg.target_config[k]) = Len(cfg.source_config[k])
          /\ \A n \in 1..Len(cfg.source_config[k]) :
                LET s == cfg.source_config[k][n]
                    t == cfg.target_config[k][n]
                IN IF s = "" THEN t = ""
                   ELSE IF KeysOf(cfg.bone_mapping, s) = {} THEN t = ""
                   ELSE t \in KeysOf(cfg.bone_mapping, s)

\* A target configuration with a slot that holds a key of the table, a slot
\* blanked because no key maps to its source name, and two keys of one name.
C11_TargetConfigBuilt ==
  /\ cfg.built = "both"
  /\ \E k \in DOMAIN cfg.source_config : \E n \in 1..Len(cfg.source_config[k]) :
        /\ cfg.source_config[k][n] # ""
        /\ cfg.target_config[k][n] \in MapKeys(cfg.bone_mapping)
  /\ \E k \in DOMAIN cfg.source_config : \E n \in 1..Len(cfg.source_config[k]) :
        /\ cfg.source_config[k][n] # ""
        /\ cfg.target_config[k][n] = ""

\* The fixed table of reference axes, in thousandths: <<swing, twist>>.
ReferenceAxes ==
  [pelvis |-> <<<<0, 0, 1000>>, <<0, 1000, 0>>>>,
   head |-> <<<<0, 0, 1000>>, <<0, 1000, 0>>>>,
   spine |-> <<<<0, 1000, 0>>, <<0, 0, 1000>>>>,
   armL |-> <<<<1000, 0, 0>>, <<0, 0, -1000>>>>,
   armR |-> <<<<-1000, 0, 0>>, <<0, 0, -1000>>>>,
   legL |-> <<<<0, 0, 1000>>, <<0, -1000, 0>>>>,
   legR |-> <<<<0, 0, 1000>>, <<0, -1000, 0>>>>,
   fingersThumbL |-> <<<<500, 0, 866>>, <<0, -1000, 0>>>>,
   fingersIndexL |-> <<<<1000, 0, 0>>, <<0, 0, -1000>>>>,
   fingersMiddleL |-> <<<<1000, 0, 0>>, <<0, 0, -1000>>>>,
   fingersRingL |-> <<<<1000, 0, 0>>, <<0, 0, -1000>>>>,
   fingersPinkyL |-> <<<<1000, 0, 0>>, <<0, 0, -1000>>>>,
   fingersThumbR |-> <<<<-500, 0, 866>>, <<0, -1000, 0>>>>,
   fingersIndexR |-> <<<<-1000, 0, 0>>, <<0, 0, -1000>>>>,
   fingersMiddleR |-> <<<<-1000, 0, 0>>, <<0, 0, -1000>>>>,
   fingersRingR |-> <<<<-1000, 0, 0>>, <<0, 0, -1000>>>>,
   fingersPinkyR |-> <<<<-1000, 0, 0>>, <<0, 0, -1000>>>>]

\* The rigs of the Retargeters.
RigsBuilt == UNION {{rt[i].r.srcRig, rt[i].r.tarRig} : i \in DOMAIN rt}

\* C12: every item of the chain Rig.fromConfig builds for a role carries the
\* role's reference axes of the fixed table (pelvis and head +Z / +Y, spine
\* +Y / +Z, arms +X or -X / -Z, legs +Z / -Y, fingers +X or -X / -Z, thumbs
\* (0.5, 0, 0.866) or (-0.5, 0, 0.866) / -Y), brought into the joint's bind
\* frame by the inverse of its bind-pose world rotation.
C12_ChainsCarryReferenceAxes ==
  \A rig \in RigsBuilt :
    /\ DOMAIN rig.chains \subseteq DOMAIN ReferenceAxes
    /\ \A k \in DOMAIN rig.chains :
         \A n \in 1..Len(rig.chains[k]) :
            LET itm == rig.chains[k][n]
                q == fromInvert(At(rig.tpose.joints, itm.idx).world.rot)
            IN /\ itm.swing = fromQuat(q, ReferenceAxes[k][1])
               /\ itm.twist = fromQuat(q, ReferenceAxes[k][2])

\* A right thumb chain was built on a joint whose bind pose is turned.
C12_ThumbChainOnTurnedJoint ==
  \E rig \in RigsBuilt :
    /\ "fingersThumbR" \in DOMAIN rig.chains
    /\ \E n \in 1..Len(rig.chains["fingersThumbR"]) :
         /\ At(rig.tpose.joints, rig.chains["fingersThumbR"][n].idx).world.rot # QuatIdentity
         /\ rig.chains["fingersThumbR"][n].swing # <<-500, 0, 866>>

\* A pass of the given kind was run on Retargeter i and did not raise.
PassRan(i, kind) ==
  /\ svc.phase = "applied"
  /\ svc.pass = kind
  /\ ~rt[i].threw

\* What applyEndInterp computes for target joint i (from 0) of role k: the
\* factor t as <<numerator, denominator>>, the source chain's first (a) and
\* last (b) <<swing, twist>> directions, and the directions given to joint i.
EndInterpOf(r, k, i) ==
  LET src == r.srcRig.chains[k]
      aRot == BoneWorld(r.srcSkel, src[1].idx).rot
      bRot == BoneWorld(r.srcSkel, src[Len(src)].idx).rot
      a == <<fromQuat(aRot, src[1].swing), fromQuat(aRot, src[1].twist)>>
      b == <<fromQuat(bRot, src[Len(src)].swing), fromQuat(bRot, src[Len(src)].twist)>>
      t == InterpT(i, Len(r.tarRig.chains[k]) - 1)
  IN [t |-> t, a |-> a, b |-> b,
      dir |-> <<fromLerpNorm(a[1], b[1], t[1], t[2]), fromLerpNorm(a[2], b[2], t[1], t[2])>>]

\* C13: in applyEndInterp on a target chain of N >= 1 joints, the factor of
\* every joint is a number in [0, 1], 0 for the first joint and 1 for the last,
\* the first joint is given the first source joint's swing and twist
\* directions and the last joint the last source joint's.
C13_InterpolationFactorDefined ==
  \A i \in DOMAIN rt :
    PassRan(i, "interp") =>
      LET r == rt[i].r
          N == Len(r.tarRig.chains[svc.k])
      IN N >= 1 =>
           /\ \A j \in 0..(N - 1) :
                 LET t == EndInterpOf(r, svc.k, j).t
                 IN t[2] > 0 /\ 0 <= t[1] /\ t[1] <= t[2]
           /\ EndInterpOf(r, svc.k, 0).t[1] = 0
           /\ EndInterpOf(r, svc.k, N - 1).t[1] = EndInterpOf(r, svc.k, N - 1).t[2]
           /\ EndInterpOf(r, svc.k, 0).dir = EndInterpOf(r, svc.k, 0).a
           /\ EndInterpOf(r, svc.k, N - 1).dir = EndInterpOf(r, svc.k, N - 1).b

\* The source pelvis root's world displacement from its bind position.
SourceDisplacement(r) ==
  LET src == r.srcRig.chains["pelvis"][1]
  IN fromSub(BoneWorld(r.srcSkel, src.idx).pos,
             At(r.srcRig.tpose.joints, src.idx).world.pos)

\* What the working pose adds to the target pelvis root's neutral position
\* (its bind-pose local transform under its parent's current world transform).
TargetOffset(r) ==
  LET tar == r.tarRig.chains["pelvis"][1]
      neutral == fromMul(getWorld(r.pose, tar.pidx),
                         At(r.tarRig.tpose.joints, tar.idx).local)
  IN fromSub(getWorld(r.pose, tar.idx).pos, neutral.pos)

\* The bind-pose world height (Y) of a rig's pelvis root.
PelvisHeight(rig) == At(rig.tpose.joints, rig.chains["pelvis"][1].idx).world.pos[2]

\* The displacement times num / den is a whole number of units in every
\* component, so that the model's division is exact.
WholeRatio(v, num, den) == \A c \in 1..3 : (v[c] * num) % den = 0

\* C14: after applyScaledTranslation each rig's scalar is the bind-pose world
\* height of its pelvis root and the offset added to the target pelvis root is
\* the source displacement times target.scalar / source.scalar; with the
\* same source and a target.scalar twice as large the offset is twice as large.
C14_OffsetScalesWithHeights ==
  /\ \A i \in DOMAIN rt :
       PassRan(i, "translate") =>
         LET r == rt[i].r IN
           /\ r.srcRig.scalar = PelvisHeight(r.srcRig)
           /\ r.tarRig.scalar = PelvisHeight(r.tarRig)
           /\ WholeRatio(SourceDisplacement(r), r.tarRig.scalar, r.srcRig.scalar) =>
                vscale(TargetOffset(r), r.srcRig.scalar)
                  = vscale(SourceDisplacement(r), r.tarRig.scalar)
  /\ \A i \in DOMAIN rt, j \in DOMAIN rt :
       ( /\ PassRan(i, "translate") /\ PassRan(j, "translate")
         /\ rt[j].r.srcRig.scalar = rt[i].r.srcRig.scalar
         /\ SourceDisplacement(rt[j].r) = SourceDisplacement(rt[i].r)
         /\ rt[j].r.tarRig.scalar = 2 * rt[i].r.tarRig.scalar
         /\ WholeRatio(SourceDisplacement(rt[i].r), rt[i].r.tarRig.scalar,
                       rt[i].r.srcRig.scalar) )
       => TargetOffset(rt[j].r) = vscale(TargetOffset(rt[i].r), 2)

\* The pelvis was translated by a displacement that is not zero, on a target
\* twice as tall as the source and on one four times as tall.
C14_PelvisTranslatedOnBoth ==
  /\ \A i \in DOMAIN rt : PassRan(i, "translate")
  /\ DOMAIN rt = 1..2
  /\ SourceDisplacement(rt[1].r) = <<110, 0, -220>>
  /\ rt[1].r.srcRig.scalar = 100
  /\ rt[1].r.tarRig.scalar = 200 /\ rt[2].r.tarRig.scalar = 400
  /\ TargetOffset(rt[1].r) = <<220, 0, -440>>
  /\ TargetOffset(rt[2].r) = <<440, 0, -880>>

\* The world-space <<swing, twist>> directions of joint n of the source chain
\* of role k, from the source skeleton as the mixer left it.
SourceDirs(r, k, n) ==
  LET itm == r.srcRig.chains[k][n]
      rot == BoneWorld(r.srcSkel, itm.idx).rot
  IN <<fromQuat(rot, itm.swing), fromQuat(rot, itm.twist)>>

\* The world-space <<swing, twist>> directions of joint n of the target chain
\* of role k in the working pose.
TargetDirs(r, k, n) ==
  LET itm == r.tarRig.chains[k][n]
      rot == getWorld(r.pose, itm.idx).rot
  IN <<fromQuat(rot, itm.swing), fromQuat(rot, itm.twist)>>

\* The world-space swing direction of target joint n after the swing step of
\* applyChain alone: the neutral rotation turned by the swing rotation.
SwingStepDir(r, k, n) ==
  LET itm == r.tarRig.chains[k][n]
      joint == At(r.tarRig.tpose.joints, itm.idx)
      neutral == fromMul(getWorld(r.pose, joint.pindex), joint.local).rot
      final_rotation == mul(fromSwing(fromQuat(neutral, itm.swing), SourceDirs(r, k, n)[1]),
                            neutral)
  IN fromQuat(final_rotation, itm.swing)

\* In the source pose the twist direction the swing step leaves on target
\* joint n is opposite to the source's twist direction.
TwistOpposite(r, k, n) ==
  LET itm == r.tarRig.chains[k][n]
      joint == At(r.tarRig.tpose.joints, itm.idx)
      neutral == fromMul(getWorld(r.pose, joint.pindex), joint.local).rot
      final_rotation == mul(fromSwing(fromQuat(neutral, itm.swing), SourceDirs(r, k, n)[1]),
                            neutral)
  IN fromQuat(final_rotation, itm.twist) = vscale(SourceDirs(r, k, n)[2], -1)

\* C15: for every joint of a chain applyChain went through, the swing step
\* brings the target joint's world swing direction onto the source's, and
\* after the twist correction the swing direction is still the source's and
\* the twist direction is the source's twist direction.
C15_SwingKeptByTwist ==
  \A i \in DOMAIN rt :
    PassRan(i, "chain") =>
      \A n \in 1..Len(rt[i].r.srcRig.chains[svc.k]) :
         /\ SwingStepDir(rt[i].r, svc.k, n) = SourceDirs(rt[i].r, svc.k, n)[1]
         /\ TargetDirs(rt[i].r, svc.k, n) = SourceDirs(rt[i].r, svc.k, n)

\* The target of the request is a copy of the source skeleton and the table
\* maps every bone to the bone of the same name.
CopyRequested ==
  /\ svc.req.target_skeleton = svc.req.source_skeleton
  /\ svc.req.target_mapping_type = "Custom"
  /\ svc.req.bone_mappings = SameNamesTable

\* C16: retargeting onto a copy of the source skeleton under the same names
\* gives, after every update (every sample of a bake) of a Retargeter without
\* additives, each target bone the world rotation of the source bone of the
\* same name.
C16_CopyReproducesWorldRotations ==
  CopyRequested =>
    \A i \in DOMAIN rt :
      (LastCallRan(i) /\ ~rt[i].threw /\ Len(rt[i].r.additives) = 0) =>
        \A b \in Indexes(rt[i].r.tarSkel) :
           WorldOf(rt[i].r.tarSkel, b).rot = WorldOf(rt[i].r.srcSkel, b).rot

\* The references of the arrays the tracks of a clip hold.
ArraysOf(clip) ==
  UNION {{clip.tracks[n].times, clip.tracks[n].values} : n \in 1..Len(clip.tracks)}

\* A clip with the contents of its arrays in the place of their references.
Contents(clip, arrays) ==
  [name |-> clip.name, duration |-> clip.duration,
   tracks |-> [n \in 1..Len(clip.tracks) |->
                 [name |-> clip.tracks[n].name, times |-> arrays[clip.tracks[n].times],
                  values |-> arrays[clip.tracks[n].values]]]]

\* The clips a call of retarget_animation_clip built.
BuiltClips == (Len(svc.before.clips) + 1)..Len(svc.clips)

\* C17: retarget_animation_clip does not modify its source clip on any path:
\* after the call (returned or raised) the source clip has the name, the
\* duration and, track by track, the names, times and values it had before,
\* and no track of a clip the call built holds a times or values array that a
\* track of the source clip holds.
C17_SourceClipNotModified ==
  svc.last = "retarget" =>
    /\ Contents(svc.clips[svc.source_clip], svc.arrays)
         = Contents(svc.before.clips[svc.source_clip], svc.before.arrays)
    /\ \A c \in BuiltClips :
         ArraysOf(svc.clips[c]) \cap ArraysOf(svc.clips[svc.source_clip]) = {}

\* The rename path built a clip with tracks for two target bones of one
\* source bone, from a source clip that has rotation and position tracks.
C17_RenamedTracksBuilt ==
  /\ svc.last = "retarget"
  /\ svc.skeleton_type # "Human"
  /\ svc.returned \in BuiltClips
  /\ \E n, m \in 1..Len(svc.clips[svc.returned].tracks) :
       /\ svc.clips[svc.returned].tracks[n].name = "Hips.position"
       /\ svc.clips[svc.returned].tracks[m].name = "Tail.quaternion"

\* C18: retarget_animation_clip always returns a newly constructed clip and
\* never the source clip object itself, whatever the correspondence table
\* (the empty one included), the skeleton type and the source armature are:
\* a call that returned, returned a clip that the call built.
C18_ReturnsNewlyBuiltClip ==
  (svc.last = "retarget" /\ ~svc.raised) =>
     /\ svc.returned \in BuiltClips
     /\ svc.returned # svc.source_clip

\* The names of the root bones of the skeletons.
RootBoneNames ==
  {s[n].name : s \in {SourceSkeleton, MixamoSkeleton, CustomSkeleton},
               n \in {m \in 1..Len(SourceSkeleton) : SourceSkeleton[m].pindex = -1}}

IsRotationTrack(x) == EndsWith(x.name, ".quaternion")
IsRootPositionTrack(x) == \E b \in RootBoneNames : x.name = b \o ".position"

\* C19: clean_track_data removes the position tracks and keeps the rotation
\* tracks: with preserve_root_position = false every clip of the list holds
\* afterwards its rotation (quaternion) tracks and no other track; with
\* preserve_root_position = true it holds its rotation tracks and the position
\* track of the root (hips) bone, and nothing else.
C19_CleanKeepsRotationTracks ==
  svc.last = "clean" =>
    \A j \in 1..Len(svc.animation_clips) :
       svc.clips[svc.animation_clips[j]].tracks
         = SelectSeq(svc.before.clips[svc.animation_clips[j]].tracks,
                     LAMBDA x : \/ IsRotationTrack(x)
                                \/ svc.preserve_root_position /\ IsRootPositionTrack(x))

\* On instance i, the step is a bake at the frame rate of the bake that was
\* the call before it, and neither of the two raised.
BakedTwiceInSuccession(i) ==
  /\ i \in DOMAIN rt /\ i \in DOMAIN rt'
  /\ rt[i].baked /\ rt'[i].baked
  /\ Len(rt[i].history) > 0
  /\ rt[i].history[Len(rt[i].history)][1] = "bake"
  /\ rt'[i].history = Append(rt[i].history, <<"bake", rt[i].fps>>)

\* C20: a bake leaves no state behind that changes a later bake: when
\* bake_animation_to_tracks(fps) is called twice in succession on one
\* Retargeter, the second call returns tracks of the same names, times and
\* values as the first.
C20_SecondBakeReturnsSameTracks ==
  [][\A i \in 1..1 : BakedTwiceInSuccession(i) => rt'[i].tracks = rt[i].tracks]_vars

-----------------------------------------------------------------------------
(* The source clock during a bake.                                         *)

\* C21: during a bake, keyframe k is captured while the source playback
\* clock (the time of the mixer's action) reads that keyframe's recorded time
\* min(k / fps, duration): the first keyframe at time 0, the last one at the
\* end of the clip, whatever updates were made on the Retargeter before.
C21_KeyframeCapturedAtItsTime ==
  \A i \in DOMAIN rt :
     rt[i].baked =>
       \A k \in 0..(Len(rt[i].clocks) - 1) :
          rt[i].clocks[k + 1] = Min(k * FrameTime(rt[i].fps), rt[i].r.clip.duration)

-----------------------------------------------------------------------------
(* The pairing of source and target joints along a chain.                  *)

\* The name of the bind-pose joint a chain item refers to.
JointName(rig, item) == At(rig.tpose.joints, item.idx).name

\* The slot of a role's configured names that a joint name was taken from.
SlotOf(names, name) == CHOOSE p \in 1..Len(names) : names[p] = name

\* The chains of role k of the two rigs have the same number of joints and
\* joint n of each comes from the same slot of its configuration.
PairedBySlot(r, k) ==
  /\ k \in DOMAIN r.tarRig.chains
  /\ Len(r.tarRig.chains[k]) = Len(r.srcRig.chains[k])
  /\ \A n \in 1..Len(r.srcRig.chains[k]) :
        SlotOf(cfg.source_config[k], JointName(r.srcRig, r.srcRig.chains[k][n]))
          = SlotOf(cfg.target_config[k], JointName(r.tarRig, r.tarRig.chains[k][n]))

\* C22: for rigs built from the custom source and target configurations
\* derived from one correspondence table, every role's source chain and
\* target chain have the same number of joints and the i-th joint of each
\* comes from the same configuration slot, so applyChain never indexes past
\* the end of the target chain.
C22_ChainsPairedBySlot ==
  \A i \in DOMAIN rt :
     cfg.built = "both" => \A k \in DOMAIN rt[i].r.srcRig.chains : PairedBySlot(rt[i].r, k)

-----------------------------------------------------------------------------
(* The rigs during the calls made on the Retargeter.                       *)

\* What the calls are to leave alone in a rig: the bind pose, the chain map
\* with every item's joint index, parent index, swing and twist, the scalar.
RigData(rig) == [tpose |-> rig.tpose, chains |-> rig.chains, scalar |-> rig.scalar]

\* C23: after the rigs are constructed, no update or bake call (nor an
\* additive pushed) changes a RigItem's joint index, parent index, swing or
\* twist vector, nor either rig's bind pose, chain map or scalar.
C23_RigsUnchangedByCalls ==
  [][\A i \in DOMAIN rt :
       i \in DOMAIN rt' =>
         /\ RigData(rt'[i].r.srcRig) = RigData(rt[i].r.srcRig)
         /\ RigData(rt'[i].r.tarRig) = RigData(rt[i].r.tarRig)]_vars

\* A Retargeter with configured chains after updates and a bake: its working
\* pose has left the bind pose of the target rig.
C23_PoseMovedRigKept ==
  \E i \in DOMAIN rt :
     /\ rt[i].baked
     /\ \E n \in 1..Len(rt[i].history) : rt[i].history[n][1] = "update"
     /\ ChainJoints(rt[i].r.tarRig) # {}
     /\ rt[i].r.pose.joints # rt[i].r.tarRig.tpose.joints
     /\ rt[i].r.pose.object # rt[i].r.tarRig.tpose.object

-----------------------------------------------------------------------------
(* The configuration objects during the builds of custom configurations.   *)

\* C24: after any sequence of build_custom_source_config and
\* build_custom_target_config calls with any tables, the shared reference
\* configurations mesh2motion_config and mixamo_config are unchanged, and
\* build_custom_target_config leaves the source configuration passed to it
\* as build_custom_source_config returned it.
C24_ReferenceConfigsUnchanged ==
  /\ svc.objects[1] = mesh2motion_config
  /\ svc.objects[2] = mixamo_config
  /\ cfg.built = "both" => svc.objects[svc.source_config] = cfg.source_config

\* Both configurations were built, the source one with blanked slots and a
\* kept slot, the target one with a slot renamed.
C24_BothConfigsWritten ==
  /\ cfg.built = "both"
  /\ cfg.source_config # mesh2motion_config
  /\ \E k \in DOMAIN cfg.source_config : \E i \in 1..Len(cfg.source_config[k]) :
        /\ cfg.source_config[k][i] # ""
        /\ cfg.target_config[k][i] \notin {"", cfg.source_config[k][i]}
  /\ svc.source_config # svc.target_config

\* A call of retarget_animation_clip on a Human source skeleton went as far as
\* configuring its two rigs (the settings cannot change after a call).
HumanRigsConfigured ==
  /\ svc.returned # 0 \/ svc.raised
  /\ svc.last \in {"retarget", "clean"}
  /\ svc.skeleton_type = "Human"
  /\ Len(svc.bone_mappings) > 0
  /\ Len(create_skeleton_from_source(svc.source_armature)) > 0
  /\ Len(svc.target_skinned_meshes) > 0

\* C25: with a Human source skeleton and the Mixamo mapping type the rigs are
\* configured from the reference and the Mixamo configurations whatever the
\* non-empty table holds, so any two non-empty tables give the same
\* configurations; with a mapping type other than Custom the configurations
\* are the same for every table.
C25_TableCountsOnlyWhenCustom ==
  HumanRigsConfigured =>
    /\ svc.target_mapping_type = "Mixamo" =>
         /\ cfg.source_config = mesh2motion_config
         /\ cfg.target_config = mixamo_config
    /\ svc.target_mapping_type # "Custom" =>
         \A mappings \in BoneMappingTables \ {<<>>} :
            LET other == ConfigsFor(svc.target_mapping_type, mappings)
            IN  /\ cfg.source_config = other.source_config
                /\ cfg.target_config = other.target_config

\* A Mixamo call with the table of two roles was given the whole Mixamo
\* configuration.
C25_MixamoCallWithSmallTable ==
  /\ HumanRigsConfigured
  /\ svc.target_mapping_type = "Mixamo"
  /\ svc.bone_mappings = TwoRolesTable
  /\ cfg.target_config = mixamo_config
  /\ cfg.target_config # ConfigsFromTable("Custom", svc.bone_mappings).target_config

\* ---------------------------------------------------------------------------
\* The retargeting page: RetargetModule with its StepLoadTargetModel, the
\* engine's load-model step, StepBoneMapping, RetargetAnimationPreview and
\* the RetargetAnimationListing instances it creates. Here svc is the page:
\* every object's fields in one record, a scene by what the code reads of it,
\* listeners by their number or by the instance that added them.
\* ---------------------------------------------------------------------------

MaxSelections == 2
MaxListings == 2

\* A scene: loaded is FALSE for null; valid is what
\* RetargetUtils.validate_skinned_mesh_has_bones answers for it.
Scene(children, skinned_meshes, valid) ==
  [loaded |-> TRUE, children |-> children, skinned_meshes |-> skinned_meshes,
   valid |-> valid]
NoScene == [loaded |-> FALSE, children |-> 0, skinned_meshes |-> 0, valid |-> FALSE]
LoadedScenes == {Scene(0, 0, FALSE), Scene(1, 0, FALSE), Scene(2, 2, TRUE)}

\* An AnimationMixer by the number of actions playing on it; exists is FALSE
\* for null.
NoMixer == [exists |-> FALSE, playing |-> 0]
AnimationMixer == [exists |-> TRUE, playing |-> 0]
stopAllAction(mixer) == [mixer EXCEPT !.playing = 0]

\* The clips of the animation file by the name of the one the preview takes.
GltfAnimations == {"Walk"}

\* What the last handler did, for the properties: its name, the
\* 'modelLoadedForRetargeting' events it dispatched, the listeners a dispatch
\* or a click ran, the events and exports that followed, and for a settled
\* start_preview whether the preview was inactive at its call.
Did(op) ==
  [op |-> op, model_loaded |-> 0, handled |-> 0, target_model_loaded |-> 0,
   exports |-> 0, frames |-> 0, inactive_at_call |-> FALSE]

has_both_skeletons(s) == s.source_armature /\ s.target_skeleton_data.loaded

get_animation_file_path(skeleton_type) ==
  IF skeleton_type = "Human" THEN "/animations/human-base-animations.glb"
  ELSE "null"

\* RetargetAnimationPreview.update_preview_animation()
update_preview_animation(s) ==
  IF ~s.is_preview_active \/ s.current_animation_clip = "null"
     \/ ~s.animation_mixer.exists
  THEN s
  ELSE IF s.bone_mapping = 0
  THEN [s EXCEPT !.animation_mixer = stopAllAction(@)]
  ELSE [s EXCEPT !.retargeted_animation_clip = s.current_animation_clip \o "_retargeted",
                 !.animation_mixer.playing = s.target_skinned_meshes]

\* RetargetAnimationPreview.stop_preview()
stop_preview(s) ==
  [s EXCEPT !.animation_mixer = NoMixer, !.current_animation_clip = "null",
            !.retargeted_animation_clip = "null", !.is_preview_active = FALSE,
            !.stopped = TRUE]

\* What start_preview does once load_first_animation has settled.
PreviewStarted(s) == [s EXCEPT !.is_preview_active = TRUE]

\* RetargetAnimationPreview.load_first_animation() up to the loader's
\* callback: a call without a file settles at once, any other waits in
\* animation_loads, counted by whether the preview was inactive at the call.
load_first_animation(s) ==
  IF get_animation_file_path(s.skeleton_type) = "null" THEN PreviewStarted(s)
  ELSE IF s.is_preview_active
  THEN [s EXCEPT !.animation_loads.active = @ + 1]
  ELSE [s EXCEPT !.animation_loads.inactive = @ + 1]

\* RetargetAnimationPreview.start_preview() up to its await.
start_preview(s) ==
  Let1([s EXCEPT !.stopped = FALSE], LAMBDA called :
    IF ~has_both_skeletons(called) THEN called
    ELSE IF ~called.target_skeleton_data.loaded THEN called
    ELSE IF called.target_skeleton_data.skinned_meshes = 0
    THEN [called EXCEPT !.target_skinned_meshes = 0]
    ELSE load_first_animation(
           [called EXCEPT !.target_skinned_meshes = called.target_skeleton_data.skinned_meshes,
                          !.animation_mixer = AnimationMixer]))

\* RetargetModule.start_live_preview()
start_live_preview(s) == IF has_both_skeletons(s) THEN start_preview(s) ELSE s

\* The module's listener for 'target-model-loaded'.
OnTargetModelLoaded(s) ==
  start_live_preview([s EXCEPT !.target_skeleton_data = s.retargetable_meshes,
                               !.continue_button = "block"])

\* One StepLoadTargetModel listener for 'modelLoadedForRetargeting'.
OnModelLoadedForRetargeting(s) ==
  IF s.final_retargetable_model_data.valid
  THEN OnTargetModelLoaded(
         [s EXCEPT !.retargetable_meshes = s.final_retargetable_model_data,
                   !.last.target_model_loaded = @ + 1])
  ELSE s

\* dispatchEvent('modelLoadedForRetargeting'): every listener there is runs,
\* each of them once.
RECURSIVE DispatchModelLoaded(_, _)
DispatchModelLoaded(s, listeners) ==
  IF listeners = 0 THEN s
  ELSE Let1(OnModelLoadedForRetargeting(s),
            LAMBDA handled : DispatchModelLoaded(handled, listeners - 1))

\* process_loaded_scene(loaded_scene) with preserve_skinned_mesh set.
process_loaded_scene(s, loaded_scene) ==
  IF loaded_scene.children = 0 THEN s
  ELSE DispatchModelLoaded(
         [s EXCEPT !.final_retargetable_model_data = loaded_scene,
                   !.last.model_loaded = 1,
                   !.last.handled = s.model_loaded_listeners,
                   !.model_loaded_listeners = 0],
         s.model_loaded_listeners)

\* load_model_file(model_file_path, file_extension) on an object URL: a GLB
\* or FBX file is loading afterwards, a ZIP file is refused as its path is
\* no data URL.
load_model_file(s, file_extension) ==
  IF file_extension \in {"fbx", "glb"} THEN [s EXCEPT !.model_loads = @ + 1] ELSE s

\* new RetargetAnimationListing(...), begin() and, with meshes, the loading
\* of the animations and start_preview().
NewListing(retargetable_meshes) ==
  [added_event_listeners |-> TRUE, target_rig_scene |-> retargetable_meshes.loaded,
   is_animations_active |-> retargetable_meshes.loaded]

InitModule ==
  /\ svc = [source_armature |-> FALSE, skeleton_type |-> "None",
            selections |-> 0, model_loads |-> 0, model_loaded_listeners |-> 0,
            final_retargetable_model_data |-> NoScene, retargetable_meshes |-> NoScene,
            target_skeleton_data |-> NoScene, bone_mapping |-> 0,
            bone_mappings_changed_listeners |-> 1,
            animation_mixer |-> NoMixer, current_animation_clip |-> "null",
            retargeted_animation_clip |-> "null", target_skinned_meshes |-> 0,
            is_preview_active |-> FALSE,
            animation_loads |-> [inactive |-> 0, active |-> 0],
            continue_button |-> "none", step |-> "bone-mapping",
            animation_listing_step |-> 0, listings |-> <<>>,
            export_click_listeners |-> <<>>, animation_loops |-> <<>>,
            stopped |-> FALSE, last |-> Did("init")]
  /\ rt = <<>>
  /\ clock = 0
  /\ cfg = NoConfigs

\* 'skeleton-loaded': the source armature is there.
SkeletonLoaded ==
  /\ \E skeleton_type \in {"Human", "None"} :
       svc' = [svc EXCEPT !.source_armature = TRUE, !.skeleton_type = skeleton_type,
                          !.last = Did("skeleton-loaded")]
  /\ UNCHANGED <<rt, clock, cfg>>

\* StepLoadTargetModel.handle_file_select(event) with one file chosen.
HandleFileSelect ==
  /\ svc.selections < MaxSelections
  /\ \E file_extension \in {"glb", "fbx", "zip", ""} :
       svc' = IF file_extension = ""
              THEN [svc EXCEPT !.selections = @ + 1, !.last = Did("file-refused")]
              ELSE [load_model_file(svc, file_extension) EXCEPT
                      !.selections = @ + 1, !.model_loaded_listeners = @ + 1,
                      !.last = Did("file-selected")]
  /\ UNCHANGED <<rt, clock, cfg>>

\* A load of the model loaders ends: with an error nothing follows, with a
\* scene process_loaded_scene runs.
ModelLoadSettles ==
  /\ svc.model_loads > 0
  /\ \/ svc' = [svc EXCEPT !.model_loads = @ - 1, !.last = Did("model-load-failed")]
     \/ \E loaded_scene \in LoadedScenes :
          svc' = process_loaded_scene([svc EXCEPT !.model_loads = @ - 1,
                                                  !.last = Did("model-loaded")], loaded_scene)
  /\ UNCHANGED <<rt, clock, cfg>>

\* The animation file of a waiting start_preview ends loading: the loader's
\* callback, or the catch of its rejection, and then the rest of start_preview.
AnimationLoadSettles ==
  /\ \E inactive_at_call \in BOOLEAN :
       /\ IF inactive_at_call THEN svc.animation_loads.inactive > 0
                              ELSE svc.animation_loads.active > 0
       /\ \E s \in {IF inactive_at_call
                     THEN [svc EXCEPT !.animation_loads.inactive = @ - 1]
                     ELSE [svc EXCEPT !.animation_loads.active = @ - 1]} :
            \/ \E clip \in GltfAnimations :
                 svc' = PreviewStarted(update_preview_animation(
                          [s EXCEPT !.current_animation_clip = clip,
                                    !.last = [Did("animation-loaded") EXCEPT
                                                !.inactive_at_call = inactive_at_call]]))
            \/ svc' = PreviewStarted(
                        [s EXCEPT !.last = [Did("animation-load-failed") EXCEPT
                                              !.inactive_at_call = inactive_at_call]])
  /\ UNCHANGED <<rt, clock, cfg>>

\* StepBoneMapping changes its table (a drop or the automatic mapping with
\* both skeletons there, a clear of a table that has entries) and dispatches
\* 'bone-mappings-changed'; the table is known by its size.
BoneMappingsChanged ==
  /\ \E size \in 0..1 :
       /\ size > 0 => has_both_skeletons(svc)
       /\ size # svc.bone_mapping \/ size > 0
       /\ svc' = IF svc.bone_mappings_changed_listeners > 0
                 THEN update_preview_animation([svc EXCEPT !.bone_mapping = size,
                                                           !.last = Did("bone-mappings-changed")])
                 ELSE [svc EXCEPT !.bone_mapping = size, !.last = Did("bone-mappings-changed")]
  /\ UNCHANGED <<rt, clock, cfg>>

\* continue_button.onclick
ContinueClick ==
  /\ svc.continue_button = "block"
  /\ svc.step = "bone-mapping"
  /\ Len(svc.listings) < MaxListings
  /\ svc' = [stop_preview(svc) EXCEPT
               !.step = "listing",
               !.listings = Append(@, NewListing(svc.retargetable_meshes)),
               !.animation_listing_step = Len(svc.listings) + 1,
               !.animation_loops = Append(@, Len(svc.listings) + 1),
               !.export_click_listeners = Append(@, Len(svc.listings) + 1),
               !.last = Did("continue")]
  /\ UNCHANGED <<rt, clock, cfg>>

\* back_to_bone_map_button.onclick
BackClick ==
  /\ svc.step = "listing"
  /\ svc' = start_live_preview(
              [svc EXCEPT !.step = "bone-mapping",
                          !.listings = IF svc.animation_listing_step = 0 THEN @
                                       ELSE [@ EXCEPT ![svc.animation_listing_step]
                                                         .is_animations_active = FALSE],
                          !.last = Did("back")])
  /\ UNCHANGED <<rt, clock, cfg>>

\* A click on the export button: every listener added to it runs, and runs
\* the export of its instance when that has a target rig scene.
ExportClick ==
  /\ svc.step = "listing"
  /\ svc' = [svc EXCEPT
               !.last = [Did("export-click") EXCEPT
                           !.handled = Len(svc.export_click_listeners),
                           !.exports = Cardinality(
                              {k \in DOMAIN svc.export_click_listeners :
                                 svc.listings[svc.export_click_listeners[k]].target_rig_scene})]]
  /\ UNCHANGED <<rt, clock, cfg>>

\* An animation frame: every loop set up runs, and runs the frame logic of
\* its instance when that is active.
AnimationFrame ==
  /\ Len(svc.animation_loops) > 0
  /\ svc' = [svc EXCEPT
               !.last = [Did("animation-frame") EXCEPT
                           !.handled = Len(svc.animation_loops),
                           !.frames = Cardinality(
                              {k \in DOMAIN svc.animation_loops :
                                 svc.listings[svc.animation_loops[k]].is_animations_active})]]
  /\ UNCHANGED <<rt, clock, cfg>>

NextModule ==
  \/ SkeletonLoaded \/ HandleFileSelect \/ ModelLoadSettles \/ AnimationLoadSettles
  \/ BoneMappingsChanged \/ ContinueClick \/ BackClick \/ ExportClick \/ AnimationFrame

SpecModule == InitModule /\ [][NextModule]_vars

\* C26: a start_preview called on an inactive preview whose animation file
\* loaded, with a non-empty table and no stop_preview since, leaves the
\* preview active with a retargeted clip playing on the target meshes.
C26_PreviewPlaysOnceStarted ==
  (/\ svc.last.op = "animation-loaded"
   /\ svc.last.inactive_at_call
   /\ svc.bone_mapping > 0
   /\ ~svc.stopped)
  => /\ svc.is_preview_active
     /\ svc.retargeted_animation_clip # "null"
     /\ svc.animation_mixer.exists
     /\ svc.animation_mixer.playing > 0

\* C27: after stop_preview, and until start_preview is called again, the
\* preview is not active.
C27_InactiveOnceStopped == svc.stopped => ~svc.is_preview_active

\* C28: at most one RetargetAnimationListing has a click listener on the
\* export button and an animation loop, and a click on the button runs one
\* export.
C28_OneLiveListing ==
  /\ Len(svc.export_click_listeners) <= 1
  /\ Len(svc.animation_loops) <= 1
  /\ svc.last.op = "export-click" => svc.last.exports = 1

\* C29: a 'modelLoadedForRetargeting' event is handled by one listener of
\* StepLoadTargetModel, and one 'target-model-loaded' event follows when the
\* loaded model is valid.
C29_OneHandlerPerModelLoaded ==
  svc.last.model_loaded = 1 =>
    /\ svc.last.handled = 1
    /\ svc.final_retargetable_model_data.valid => svc.last.target_model_loaded = 1

\* ---------------------------------------------------------------------------
\* The animations listing step of the skinning page: the loaded pairs of an
\* original and a display clip, the mirror checkbox and the arm extension.
\* Here svc is the step with the heap its clips live in: clips and typed
\* arrays are objects referred to by position, a track is a record of its
\* name and the references of its two arrays. A quaternion key is
\* <<x, y, z, w, d>> for the components x/d .. w/d, a position key <<x, y, z>>.
\* ---------------------------------------------------------------------------

MaxChanges == 3

\* KeyframeTrack.clone() of the n-th track on: the arrays are sliced.
RECURSIVE CloneTracks(_, _, _)
CloneTracks(h, tracks, n) ==
  IF n > Len(tracks) THEN h
  ELSE Let2(slice(h.arrays, tracks[n].times), tracks[n], LAMBDA times, track :
         Let1(slice(times.arrays, track.values), LAMBDA values :
           CloneTracks([arrays |-> values.arrays,
                        tracks |-> Append(h.tracks,
                                          KeyframeTrack(track.name, times.ref, values.ref))],
                       tracks, n + 1)))

\* A call that handed the clip on in place of a copy of it.
SameClip(h, clip) == [clips |-> h.clips, arrays |-> h.arrays, ref |-> clip]

\* AnimationUtility.deep_clone_animation_clip(clip): [clips, arrays, ref].
deep_clone_animation_clip(h, clip) ==
  Let1(CloneTracks([arrays |-> h.arrays, tracks |-> <<>>], h.clips[clip].tracks, 1),
    LAMBDA cloned :
      [clips |-> Append(h.clips, AnimationClip(h.clips[clip].name, h.clips[clip].duration,
                                                cloned.tracks)),
       arrays |-> cloned.arrays, ref |-> Len(h.clips) + 1])

\* tracks.findIndex(t => t.name === name), counted from 1, or 0.
FindIndex(tracks, name) ==
  IF \E j \in DOMAIN tracks : tracks[j].name = name
  THEN CHOOSE j \in DOMAIN tracks :
         tracks[j].name = name /\ \A k \in 1..(j - 1) : tracks[k].name # name
  ELSE 0

\* The pairs of left and right tracks apply_animation_mirroring swaps.
RECURSIVE track_swaps(_, _)
track_swaps(tracks, i) ==
  IF i > Len(tracks) THEN <<>>
  ELSE IF EndsWith(tracks[i].name, "L.quaternion")
          /\ FindIndex(tracks, WithoutEnd(tracks[i].name, "L.quaternion")
                               \o "R.quaternion") # 0
  THEN <<[leftIndex |-> i,
          rightIndex |-> FindIndex(tracks, WithoutEnd(tracks[i].name, "L.quaternion")
                                           \o "R.quaternion")]>>
       \o track_swaps(tracks, i + 1)
  ELSE track_swaps(tracks, i + 1)

\* mirror_quaternion_track_values(values): x and w inverted in a copy.
mirror_quaternion_track_values(values) ==
  [i \in DOMAIN values |->
     <<0 - values[i][1], values[i][2], values[i][3], 0 - values[i][4], values[i][5]>>]

\* The swaps of one display clip, from the n-th on.
RECURSIVE SwapTracks(_, _, _, _)
SwapTracks(s, clip, swaps, n) ==
  IF n > Len(swaps) THEN s
  ELSE Let3(s.clips[clip].tracks[swaps[n].leftIndex],
            s.clips[clip].tracks[swaps[n].rightIndex], Len(s.arrays),
         LAMBDA left_track, right_track, count :
           SwapTracks(
             [s EXCEPT
                !.arrays = @ \o <<@[left_track.values], @[right_track.values],
                                  @[left_track.times], @[right_track.times],
                                  mirror_quaternion_track_values(@[left_track.values]),
                                  mirror_quaternion_track_values(@[right_track.values])>>,
                !.clips[clip].tracks[swaps[n].leftIndex].values = count + 6,
                !.clips[clip].tracks[swaps[n].leftIndex].times = count + 4,
                !.clips[clip].tracks[swaps[n].rightIndex].values = count + 5,
                !.clips[clip].tracks[swaps[n].rightIndex].times = count + 3],
             clip, swaps, n + 1))

is_center_bone(name) ==
  \E part \in {"spine", "hips", "neck", "head", "torso", "chest"} :
     Includes(ToLowerCase(name), part)

\* apply_center_bone_mirroring on one display clip from the n-th track on:
\* y and z inverted in the track's own array.
RECURSIVE MirrorCenterBones(_, _, _)
MirrorCenterBones(s, clip, n) ==
  IF n > Len(s.clips[clip].tracks) THEN s
  ELSE Let1(s.clips[clip].tracks[n], LAMBDA track :
         MirrorCenterBones(
           IF Includes(track.name, "quaternion") /\ is_center_bone(track.name)
           THEN [s EXCEPT !.arrays[track.values] =
                            [i \in DOMAIN @ |->
                               <<@[i][1], 0 - @[i][2], 0 - @[i][3], @[i][4], @[i][5]>>]]
           ELSE s,
           clip, n + 1))

\* apply_hips_position_mirroring on one display clip from the n-th track on.
RECURSIVE MirrorHipsPosition(_, _, _)
MirrorHipsPosition(s, clip, n) ==
  IF n > Len(s.clips[clip].tracks) THEN s
  ELSE Let1(s.clips[clip].tracks[n], LAMBDA track :
         MirrorHipsPosition(
           IF Includes(track.name, "position") /\ Includes(ToLowerCase(track.name), "hips")
           THEN [s EXCEPT !.arrays[track.values] =
                            [i \in DOMAIN @ |-> <<0 - @[i][1], @[i][2], @[i][3]>>]]
           ELSE s,
           clip, n + 1))

\* Quaternion.setFromAxisAngle((0, 0, axis_z), percentage / 100), the amount
\* counted in steps of the angle 2 atan(3/4), near 128.7 percent, whose half
\* has the sine 3/5 and the cosine 4/5.
setFromAxisAngle(axis_z, amount) ==
  IF amount = 0 THEN <<0, 0, 0, 1, 1>> ELSE <<0, 0, axis_z * amount * 3, 4, 5>>

\* Quaternion.multiply(q) on a.
multiplyQuaternions(a, b) ==
  <<a[1] * b[4] + a[4] * b[1] + a[2] * b[3] - a[3] * b[2],
    a[2] * b[4] + a[4] * b[2] + a[3] * b[1] - a[1] * b[3],
    a[3] * b[4] + a[4] * b[3] + a[1] * b[2] - a[2] * b[1],
    a[4] * b[4] - a[1] * b[1] - a[2] * b[2] - a[3] * b[3],
    a[5] * b[5]>>

\* apply_arm_extension_warp on one display clip from the n-th track on: an
\* upper arm track gets a new array of its keys turned.
RECURSIVE WarpArms(_, _, _, _)
WarpArms(s, clip, percentage, n) ==
  IF n > Len(s.clips[clip].tracks) THEN s
  ELSE Let1(s.clips[clip].tracks[n], LAMBDA track :
         WarpArms(
           IF Includes(track.name, "quaternion")
              /\ (Includes(track.name, "upper_armR") \/ Includes(track.name, "upper_armL"))
           THEN Let2(setFromAxisAngle(IF Includes(track.name, "upper_armL") THEN 1 ELSE 0 - 1,
                                      percentage),
                     Len(s.arrays[track.times]),
                  LAMBDA quaternion, track_count :
                    [s EXCEPT
                       !.arrays = Append(@, [i \in DOMAIN @[track.values] |->
                                               IF i <= track_count
                                               THEN multiplyQuaternions(@[track.values][i],
                                                                        quaternion)
                                               ELSE @[track.values][i]]),
                       !.clips[clip].tracks[n].values = Len(s.arrays) + 1])
           ELSE s,
           clip, percentage, n + 1))

\* An operation on the display clip of every pair, from the n-th pair on.
RECURSIVE ForEachPair(_, _, _)
ForEachPair(s, Op(_, _), n) ==
  IF n > Len(s.animation_clips_loaded) THEN s
  ELSE Let1(Op(s, s.animation_clips_loaded[n].display_animation_clip),
            LAMBDA done : ForEachPair(done, Op, n + 1))

\* AnimationUtility.apply_animation_mirroring(animation_clips)
apply_animation_mirroring(s) ==
  ForEachPair(
    ForEachPair(
      ForEachPair(s, LAMBDA t, clip :
                       SwapTracks(t, clip, track_swaps(t.clips[clip].tracks, 1), 1), 1),
      LAMBDA t, clip : MirrorCenterBones(t, clip, 1), 1),
    LAMBDA t, clip : MirrorHipsPosition(t, clip, 1), 1)

\* AnimationUtility.apply_arm_extension_warp(animation_clips, percentage)
apply_arm_extension_warp(s, percentage) ==
  ForEachPair(s, LAMBDA t, clip : WarpArms(t, clip, percentage, 1), 1)

\* The display clip of every pair from the n-th on set to a copy of the
\* original clip.
RECURSIVE ResetDisplayClips(_, _)
ResetDisplayClips(s, n) ==
  IF n > Len(s.animation_clips_loaded) THEN s
  ELSE Let1(deep_clone_animation_clip(s, s.animation_clips_loaded[n].original_animation_clip),
         LAMBDA cloned :
           ResetDisplayClips(
             [s EXCEPT !.clips = cloned.clips, !.arrays = cloned.arrays,
                       !.animation_clips_loaded[n].display_animation_clip = cloned.ref],
             n + 1))

\* rebuild_warped_animations()
rebuild_warped_animations(s) ==
  Let1(ResetDisplayClips(s, 1), LAMBDA reset :
    apply_arm_extension_warp(
      IF reset.mirror_animations_enabled THEN apply_animation_mirroring(reset) ELSE reset,
      reset.warp_arm_amount))

\* play_animation(index): the display clip of the pair is what plays.
play_animation(s, index) ==
  [s EXCEPT !.playing = s.animation_clips_loaded[index + 1].display_animation_clip]

\* AnimationUtility.apply_skeleton_scale_to_position_keyframes on one clip
\* from the n-th track on.
RECURSIVE ScalePositionKeyframes(_, _, _, _)
ScalePositionKeyframes(s, clip, scaleAmount, n) ==
  IF n > Len(s.clips[clip].tracks) THEN s
  ELSE Let1(s.clips[clip].tracks[n], LAMBDA track :
         ScalePositionKeyframes(
           IF Includes(track.name, ".position")
           THEN [s EXCEPT !.arrays[track.values] =
                            [i \in DOMAIN @ |-> <<@[i][1] * scaleAmount, @[i][2] * scaleAmount,
                                                  @[i][3] * scaleAmount>>]]
           ELSE s,
           clip, scaleAmount, n + 1))

\* CustomAnimationImporter.process_loaded_animations(raw_animations,
\* skeleton_scale) from the n-th raw clip on: the pairs are added to s.
RECURSIVE process_loaded_animations(_, _, _, _)
process_loaded_animations(s, raw_animations, skeleton_scale, n) ==
  IF n > Len(raw_animations) THEN s
  ELSE Let1(deep_clone_animation_clip(s, raw_animations[n]), LAMBDA cloned :
         Let1(ScalePositionKeyframes(
                [s EXCEPT !.arrays = cloned.arrays,
                          !.clips = [cloned.clips EXCEPT ![cloned.ref].tracks =
                                                           clean_track_data(@, FALSE)]],
                cloned.ref, skeleton_scale, 1),
           LAMBDA scaled :
             Let1(deep_clone_animation_clip(scaled, cloned.ref), LAMBDA display :
               process_loaded_animations(
                 [scaled EXCEPT
                    !.clips = display.clips, !.arrays = display.arrays,
                    !.animation_clips_loaded =
                       Append(@, [original_animation_clip |-> cloned.ref,
                                  display_animation_clip |-> display.ref])],
                 raw_animations, skeleton_scale, n + 1))))

\* What a clip holds: its name, its duration and its tracks with the
\* contents of their arrays.
ClipValue(h, clip) ==
  [name |-> h.clips[clip].name, duration |-> h.clips[clip].duration,
   tracks |-> [i \in DOMAIN h.clips[clip].tracks |->
                 [name |-> h.clips[clip].tracks[i].name,
                  times |-> h.arrays[h.clips[clip].tracks[i].times],
                  values |-> h.arrays[h.clips[clip].tracks[i].values]]]]

\* The animation files: an idle clip of a spine and a forearm, and a walk
\* clip of both upper arms, the spine, the hips' position and a hand's.
IdleTracks(h) ==
  TrackFromData(
    TrackFromData(h, "DEF-spine.quaternion", <<0, 50>>,
                  <<<<0, 0, 0, 1, 1>>, <<0, 3, 0, 4, 5>>>>),
    "DEF-forearmL.quaternion", <<0>>, <<<<1, 0, 0, 0, 1>>>>)
WalkTracks(h) ==
  TrackFromData(
    TrackFromData(
      TrackFromData(
        TrackFromData(
          TrackFromData(h, "DEF-upper_armL.quaternion", <<0, 100>>,
                        <<<<0, 0, 0, 1, 1>>, <<1, 0, 0, 0, 1>>>>),
          "DEF-upper_armR.quaternion", <<0>>, <<<<0, 3, 0, 4, 5>>>>),
        "DEF-spine.quaternion", <<0>>, <<<<0, 1, 0, 0, 1>>>>),
      "DEF-hips.position", <<0>>, <<<<2, 100, 0>>>>),
    "DEF-handL.position", <<0>>, <<<<10, 8, 0>>>>)

WalkFile ==
  Let1(WalkTracks([tracks |-> <<>>, arrays |-> <<>>]), LAMBDA walk :
    [clips |-> <<AnimationClip("Walk", 100, walk.tracks)>>, arrays |-> walk.arrays])
IdleAndWalkFile ==
  Let1(IdleTracks([tracks |-> <<>>, arrays |-> <<>>]), LAMBDA idle :
    Let1(WalkTracks([tracks |-> <<>>, arrays |-> idle.arrays]), LAMBDA walk :
      [clips |-> <<AnimationClip("Idle", 50, idle.tracks),
                   AnimationClip("Walk", 100, walk.tracks)>>,
       arrays |-> walk.arrays]))
AnimationFiles == {WalkFile, IdleAndWalkFile}

\* The arm extensions of the slider, in steps of 128.7 percent.
ArmAmounts == {0 - 1, 0, 1}
SkeletonScales == {1, 2}

\* The step once its animations are loaded (the files list their clips in
\* the order of their names) and the first of them plays; "loaded" keeps
\* what each original clip held then.
LoadedStep(file, skeleton_scale) ==
  Let1(process_loaded_animations(
         [clips |-> file.clips, arrays |-> file.arrays, animation_clips_loaded |-> <<>>,
          mirror_animations_enabled |-> FALSE, warp_arm_amount |-> 0,
          current_playing_index |-> 0, playing |-> 0, changes |-> 0, loaded |-> <<>>],
         [i \in DOMAIN file.clips |-> i], skeleton_scale, 1),
    LAMBDA s :
      play_animation(
        [s EXCEPT !.loaded = [n \in DOMAIN s.animation_clips_loaded |->
                                ClipValue(s, s.animation_clips_loaded[n]
                                               .original_animation_clip)]], 0))

InitListing ==
  /\ \E file \in AnimationFiles, skeleton_scale \in SkeletonScales :
       svc = LoadedStep(file, skeleton_scale)
  /\ rt = <<>>
  /\ clock = 0
  /\ cfg = NoConfigs

\* The change listener of the mirror checkbox.
MirrorChange ==
  /\ svc.changes < MaxChanges
  /\ \E is_checked \in {~svc.mirror_animations_enabled} :
       svc' = play_animation(
                rebuild_warped_animations(
                  [svc EXCEPT !.mirror_animations_enabled = is_checked,
                              !.changes = @ + 1]),
                svc.current_playing_index)
  /\ UNCHANGED <<rt, clock, cfg>>

\* update_a_pose_value(new_value)
update_a_pose_value ==
  /\ svc.changes < MaxChanges
  /\ \E new_value \in ArmAmounts :
       svc' = play_animation(
                rebuild_warped_animations(
                  [svc EXCEPT !.warp_arm_amount = new_value, !.changes = @ + 1]),
                svc.current_playing_index)
  /\ UNCHANGED <<rt, clock, cfg>>

\* A click on the play button of another animation of the list.
PlayClick ==
  /\ \E index \in 0..(Len(svc.animation_clips_loaded) - 1) :
       /\ index # svc.current_playing_index
       /\ svc' = play_animation(svc, index)
  /\ UNCHANGED <<rt, clock, cfg>>

NextListing == MirrorChange \/ update_a_pose_value \/ PlayClick

SpecListing == InitListing /\ [][NextListing]_vars

\* The display clip that comes of a fresh copy of what the n-th original clip
\* held when it was loaded, mirrored and warped as the step is set now.
FromFreshCopy(n) ==
  Let1(Let1(svc.loaded[n], LAMBDA original :
         [clips |-> <<AnimationClip(original.name, original.duration,
                        [i \in DOMAIN original.tracks |->
                           KeyframeTrack(original.tracks[i].name, 2 * i - 1, 2 * i)])>>,
          arrays |-> [k \in 1..(2 * Len(original.tracks)) |->
                        IF k % 2 = 1 THEN original.tracks[(k + 1) \div 2].times
                        ELSE original.tracks[k \div 2].values],
          animation_clips_loaded |-> <<[original_animation_clip |-> 0,
                                        display_animation_clip |-> 1]>>]),
    LAMBDA fresh :
      ClipValue(apply_arm_extension_warp(
                  IF svc.mirror_animations_enabled THEN apply_animation_mirroring(fresh)
                  ELSE fresh,
                  svc.warp_arm_amount), 1))

\* C30: every display clip is what the current mirror flag and arm extension
\* make of a fresh copy of its original clip, whatever was set before, and
\* every original clip holds what it held when it was loaded.
C30_DisplayRebuiltFromOriginal ==
  \A n \in DOMAIN svc.animation_clips_loaded :
     /\ ClipValue(svc, svc.animation_clips_loaded[n].display_animation_clip)
          = FromFreshCopy(n)
     /\ ClipValue(svc, svc.animation_clips_loaded[n].original_animation_clip)
          = svc.loaded[n]

\* After other settings the clips are mirrored and warped, and a display clip
\* differs from its original.
C30_RebuiltAfterOtherSettings ==
  /\ svc.changes >= 2
  /\ svc.mirror_animations_enabled
  /\ svc.warp_arm_amount # 0
  /\ \E n \in DOMAIN svc.animation_clips_loaded :
        ClipValue(svc, svc.animation_clips_loaded[n].display_animation_clip)
          # svc.loaded[n]

=============================================================================
